---- MODULE Spec2Model ----
(***************************************************************************)
(* The game session engine of ludo-nadwa-server (package models): the      *)
(* board geometry tables, the rule evaluator, and the Game aggregate with  *)
(* every operation that mutates it.  One session is modelled; `game` is    *)
(* the Game struct, `now` is the wall clock (seconds) read by time.Now().  *)
(***************************************************************************)
EXTENDS Integers, Sequences, FiniteSets, TLC

VARIABLES
    game,     \* the Game struct (models.Game)
    now,      \* wall clock in seconds, what time.Now() returns
    steps,    \* how many steps (calls and clock advances) have been taken
    botSeq,   \* how many bot ids have been generated so far
    last,     \* the last call made on the session and what it returned
    tasks,    \* the request handlers and driver passes that are under way
    events,   \* the events handed to the hub's broadcast channel, in order
    applied,  \* how many operations have taken effect on the session
    removed,  \* whether the sweep has deleted the session from the manager
    travelled, \* how many cells the followed piece has advanced since its start cell
    hub,      \* the hub, its subscribers' buffers and their reader and writer tasks
    serial    \* the snapshots of the states the session has been in

vars == <<game, now, steps, botSeq, last, tasks, events, applied, removed, travelled, hub, serial>>

\* What the handlers, the drivers and the sweep keep besides the session.
hvars == <<tasks, events, applied, removed, travelled, hub, serial>>

----------------------------------------------------------------------------
\* Bounds of the exploration (not program constants).

MaxSteps == 3      \* calls and clock advances in one behaviour

----------------------------------------------------------------------------
\* Program constants.

BoardSize == 52
HexBoardSize == 72
HomeStretchSize == 6
FinishPosition == 100
PiecesPerPlayer == 4
HomePosition == -1
StretchPosition == -2
DefaultTurnTimeout == 60
MaxConsecutiveSixes == 3
MaxChatMessageLen == 500
HexMinPlayers == 5
MinPlayersToStart == 2
DiceSides == 6

\* time.Time{} (IsZero); the clock itself starts after it.
ZeroTime == 0

States == {"waiting", "playing", "paused", "ended"}

squareColors == <<"red", "blue", "green", "yellow">>
hexColors == <<"blue", "red", "green", "purple", "olive", "indigo">>

PlayerStartPositions ==
    [c \in {"red", "blue", "green", "yellow"} |->
        CASE c = "red" -> 0 [] c = "blue" -> 13 [] c = "green" -> 26 [] c = "yellow" -> 39]

HexPlayerStartPositions ==
    [c \in {"blue", "red", "green", "purple", "olive", "indigo"} |->
        CASE c = "blue" -> 0 [] c = "red" -> 12 [] c = "green" -> 24
          [] c = "purple" -> 36 [] c = "olive" -> 48 [] c = "indigo" -> 60]

PlayerHomeStretchEntry ==
    [c \in {"red", "blue", "green", "yellow"} |->
        CASE c = "red" -> 50 [] c = "blue" -> 11 [] c = "green" -> 24 [] c = "yellow" -> 37]

HexPlayerHomeStretchEntry ==
    [c \in {"blue", "red", "green", "purple", "olive", "indigo"} |->
        CASE c = "blue" -> 70 [] c = "red" -> 10 [] c = "green" -> 22
          [] c = "purple" -> 34 [] c = "olive" -> 46 [] c = "indigo" -> 58]

SafeZones == {0, 8, 13, 21, 26, 34, 39, 47}
HexSafeZones == {0, 3, 12, 15, 24, 27, 36, 39, 48, 51, 60, 63}

GetBoardSize(maxPlayers) ==
    IF maxPlayers >= HexMinPlayers THEN HexBoardSize ELSE BoardSize

\* A Go map read of a missing key yields the zero value, 0.
GetStartPosition(color, maxPlayers) ==
    IF maxPlayers >= HexMinPlayers
    THEN (IF color \in DOMAIN HexPlayerStartPositions
          THEN HexPlayerStartPositions[color] ELSE 0)
    ELSE (IF color \in DOMAIN PlayerStartPositions
          THEN PlayerStartPositions[color] ELSE 0)

GetHomeStretchEntry(color, maxPlayers) ==
    IF maxPlayers >= HexMinPlayers
    THEN (IF color \in DOMAIN HexPlayerHomeStretchEntry
          THEN HexPlayerHomeStretchEntry[color] ELSE 0)
    ELSE (IF color \in DOMAIN PlayerHomeStretchEntry
          THEN PlayerHomeStretchEntry[color] ELSE 0)

IsSafeZone(position, maxPlayers) ==
    IF maxPlayers >= HexMinPlayers
    THEN position \in HexSafeZones
    ELSE position \in SafeZones

----------------------------------------------------------------------------
\* Pieces and players.

\* The Piece literal of CreateGame / JoinGame / AddBot / Rematch.
NewPiece(i) ==
    [ID |-> i, Position |-> HomePosition, HomeStretchPosition |-> 0,
     IsHome |-> TRUE, IsSafe |-> FALSE, IsFinished |-> FALSE]

NewPieces == [i \in 1..PiecesPerPlayer |-> NewPiece(i - 1)]

NewPlayer(color, order, ready, host, bot) ==
    [Color |-> color, Pieces |-> NewPieces, Order |-> order,
     IsReady |-> ready, IsHost |-> host, IsBot |-> bot]

PlayerIDs(g) == DOMAIN g.Players
NumPlayers(g) == Cardinality(DOMAIN g.Players)

\* What an operation returns: the session after the call and the error.
Ret(g, err) == [g |-> g, err |-> err]

OK == "ok"

----------------------------------------------------------------------------
\* Rule evaluator.

\* Variant: no piece is ever taken to have gone round.
hasCompletedLapNever(g, color, currentPos) == FALSE

hasCompletedLap(g, color, currentPos) ==
    LET startPos == GetStartPosition(color, g.MaxPlayers)
        homeStretchEntry == GetHomeStretchEntry(color, g.MaxPlayers)
    IN IF startPos <= homeStretchEntry
       THEN currentPos > startPos \/ currentPos <= homeStretchEntry
       ELSE currentPos > startPos \/ currentPos <= homeStretchEntry

\* Variant: the move on the track does not wrap at the end of the board.
calculateNewPositionNoWrap(g, color, currentPos, diceRoll) ==
    LET homeStretchEntry == GetHomeStretchEntry(color, g.MaxPlayers)
        boardSize == GetBoardSize(g.MaxPlayers)
        stepsToEntry == IF currentPos <= homeStretchEntry
                        THEN homeStretchEntry - currentPos
                        ELSE (boardSize - currentPos) + homeStretchEntry
        lap == hasCompletedLap(g, color, currentPos)
    IN IF lap /\ diceRoll > stepsToEntry
       THEN [pos |-> StretchPosition, entered |-> TRUE, hs |-> diceRoll - stepsToEntry]
       ELSE IF lap /\ diceRoll = stepsToEntry
       THEN [pos |-> homeStretchEntry, entered |-> FALSE, hs |-> 0]
       ELSE [pos |-> currentPos + diceRoll, entered |-> FALSE, hs |-> 0]

\* Returns (newPosition, enteredHomeStretch, homeStretchPosition).
calculateNewPosition(g, color, currentPos, diceRoll) ==
    LET homeStretchEntry == GetHomeStretchEntry(color, g.MaxPlayers)
        boardSize == GetBoardSize(g.MaxPlayers)
        stepsToEntry == IF currentPos <= homeStretchEntry
                        THEN homeStretchEntry - currentPos
                        ELSE (boardSize - currentPos) + homeStretchEntry
        lap == hasCompletedLap(g, color, currentPos)
    IN IF lap /\ diceRoll > stepsToEntry
       THEN [pos |-> StretchPosition, entered |-> TRUE, hs |-> diceRoll - stepsToEntry]
       ELSE IF lap /\ diceRoll = stepsToEntry
       THEN [pos |-> homeStretchEntry, entered |-> FALSE, hs |-> 0]
       ELSE [pos |-> (currentPos + diceRoll) % boardSize, entered |-> FALSE, hs |-> 0]

\* Variant: the exact roll to finish is not listed (< in place of <=).
pieceCanMoveShortOfFinish(g, color, piece) ==
    IF piece.IsFinished THEN FALSE
    ELSE IF piece.IsHome THEN g.LastDiceRoll = DiceSides
    ELSE IF piece.HomeStretchPosition > 0
    THEN piece.HomeStretchPosition + g.LastDiceRoll < HomeStretchSize
    ELSE LET c == calculateNewPosition(g, color, piece.Position, g.LastDiceRoll)
         IN IF c.entered THEN c.hs <= HomeStretchSize ELSE TRUE

\* The per-piece test of the loop of getValidMovesInternal.
pieceCanMove(g, color, piece) ==
    IF piece.IsFinished THEN FALSE
    ELSE IF piece.IsHome THEN g.LastDiceRoll = DiceSides
    ELSE IF piece.HomeStretchPosition > 0
    THEN piece.HomeStretchPosition + g.LastDiceRoll <= HomeStretchSize
    ELSE LET c == calculateNewPosition(g, color, piece.Position, g.LastDiceRoll)
         IN IF c.entered THEN c.hs <= HomeStretchSize ELSE TRUE

\* The list of piece ids, in piece order; nil (the empty list) for an unknown player.
getValidMovesInternal(g, playerID) ==
    IF playerID \notin DOMAIN g.Players THEN <<>>
    ELSE LET player == g.Players[playerID]
             valid == SelectSeq(player.Pieces,
                                LAMBDA pc : pieceCanMove(g, player.Color, pc))
         IN [k \in 1..Len(valid) |-> valid[k].ID]

GetValidMoves(g, playerID) == getValidMovesInternal(g, playerID)

HasValidMoves(g, playerID) ==
    /\ playerID \in DOMAIN g.Players
    /\ \E k \in 1..PiecesPerPlayer :
          pieceCanMove(g, g.Players[playerID].Color, g.Players[playerID].Pieces[k])

\* The capture test and the reset of one piece in checkAndCapture.
isCapturedAt(piece, position) ==
    /\ piece.Position = position
    /\ ~piece.IsHome
    /\ ~piece.IsFinished
    /\ piece.HomeStretchPosition = 0

\* Variant: the captured piece is moved home but not flagged as at home.
sendHomeUnflagged(piece) ==
    [piece EXCEPT !.Position = HomePosition, !.IsSafe = FALSE, !.HomeStretchPosition = 0]

sendHome(piece) ==
    [piece EXCEPT !.Position = HomePosition, !.IsHome = TRUE,
                  !.IsSafe = FALSE, !.HomeStretchPosition = 0]

\* Variant: a capture sends home every piece of the captured player.
checkAndCaptureWholePlayer(players, currentPlayerID, position) ==
    LET hit(pid) == /\ pid # currentPlayerID
                    /\ \E k \in 1..PiecesPerPlayer : isCapturedAt(players[pid].Pieces[k], position)
    IN [players |->
           [pid \in DOMAIN players |->
               [players[pid] EXCEPT !.Pieces =
                   [k \in 1..PiecesPerPlayer |->
                       IF hit(pid) THEN sendHome(players[pid].Pieces[k])
                       ELSE players[pid].Pieces[k]]]],
        captured |-> \E pid \in DOMAIN players : hit(pid)]

\* Returns the players after the captures and whether any piece was captured.
checkAndCapture(players, currentPlayerID, position) ==
    LET hit(pid, k) == pid # currentPlayerID /\ isCapturedAt(players[pid].Pieces[k], position)
    IN [players |->
           [pid \in DOMAIN players |->
               [players[pid] EXCEPT !.Pieces =
                   [k \in 1..PiecesPerPlayer |->
                       IF hit(pid, k) THEN sendHome(players[pid].Pieces[k])
                       ELSE players[pid].Pieces[k]]]],
        captured |-> \E pid \in DOMAIN players : \E k \in 1..PiecesPerPlayer : hit(pid, k)]

\* nextTurn: the player whose Order is the current player's Order + 1 modulo the
\* number of players takes the turn; when no player has that Order nothing changes.
\* While a game is playing the orders are the permutation randomizeTurnOrder wrote
\* (TurnOrderIsPermutationInPlay), so the loop finds exactly one player.
nextTurn(g, t) ==
    LET nextOrder == (g.Players[g.CurrentTurn].Order + 1) % NumPlayers(g)
        found == {p \in DOMAIN g.Players : g.Players[p].Order = nextOrder}
    IN IF found = {} THEN g
       ELSE [g EXCEPT !.CurrentTurn = CHOOSE p \in found : TRUE,
                      !.TurnStartTime = t,
                      !.HasRolled = FALSE]

----------------------------------------------------------------------------
\* Session operations.  Each takes the session g, the call's arguments, the
\* outcome of whatever the code draws at random (dice, map iteration order,
\* shuffle) and the time t of the call, and returns Ret(session after, error).

ErrGameFull == "game is full"
ErrGameStarted == "game already started"
ErrGamePaused == "game is paused"
ErrGameNotPaused == "game is not paused"
ErrPlayerExists == "player already in game"
ErrNotPlayerTurn == "not player's turn"
ErrInvalidMove == "invalid move"
ErrNotHost == "only host can perform this action"
ErrPlayersNotReady == "not all players are ready"
ErrMustRollFirst == "must roll dice before moving"
ErrAlreadyRolled == "already rolled this turn"
ErrThreeSixes == "three consecutive sixes - loss of turn"
ErrPlayerNotFound == "player not found"
ErrCannotKickSelf == "cannot kick yourself"
ErrChatTooLong == "chat message too long"
ErrNotEnoughPlayers == "need at least 2 players to start"
ErrNotPlayingState == "game not in playing state"
ErrInvalidPieceID == "invalid piece ID"
ErrNotABot == "player is not a bot"
ErrCanOnlyPause == "can only pause a playing game"
ErrCanOnlyRematch == "can only rematch an ended game"

\* All injective sequences over S: the orders in which a Go range loop (or the
\* Fisher-Yates shuffle) can visit the keys of a map.
Perms(S) ==
    {f \in [1..Cardinality(S) -> S] : \A i, j \in 1..Cardinality(S) : i # j => f[i] # f[j]}

Colors(maxPlayers) == IF maxPlayers >= HexMinPlayers THEN hexColors ELSE squareColors

\* The colour JoinGame and AddBot give to the player that joins n players.
joinColor(maxPlayers, n) ==
    IF maxPlayers >= HexMinPlayers
    THEN hexColors[(n % 6) + 1]
    ELSE squareColors[(n % 4) + 1]

CreateGame(hostID, maxPlayers, t) ==
    [Players |-> [p \in {hostID} |-> NewPlayer("red", 0, FALSE, TRUE, FALSE)],
     Spectators |-> {},
     State |-> "waiting",
     CurrentTurn |-> "",
     MaxPlayers |-> IF maxPlayers < 2 \/ maxPlayers > 6 THEN 4 ELSE maxPlayers,
     CreatedAt |-> t,
     LastDiceRoll |-> 0,
     HasRolled |-> FALSE,
     TurnStartTime |-> ZeroTime,
     LastActivity |-> t,
     Winner |-> "",
     ConsecutiveSixes |-> 0,
     HostID |-> hostID,
     MoveHistory |-> <<>>,
     ChatMessages |-> <<>>,
     PausedBy |-> "",
     PausedAt |-> ZeroTime,
     CaptureGrantsTurn |-> TRUE]

addPlayer(g, id, player) ==
    [p \in DOMAIN g.Players \cup {id} |-> IF p = id THEN player ELSE g.Players[p]]

removePlayer(g, id) ==
    [p \in DOMAIN g.Players \ {id} |-> g.Players[p]]

\* Variant: the room is not checked for being full.
JoinGameIntoFullRoom(g, playerID, t) ==
    IF g.State # "waiting" THEN Ret(g, ErrGameStarted)
    ELSE IF playerID \in DOMAIN g.Players THEN Ret(g, ErrPlayerExists)
    ELSE Ret([g EXCEPT
                !.Players = addPlayer(g, playerID,
                    NewPlayer(joinColor(g.MaxPlayers, NumPlayers(g)), NumPlayers(g),
                              FALSE, FALSE, FALSE)),
                !.LastActivity = t], OK)

JoinGame(g, playerID, t) ==
    IF g.State # "waiting" THEN Ret(g, ErrGameStarted)
    ELSE IF NumPlayers(g) >= g.MaxPlayers THEN Ret(g, ErrGameFull)
    ELSE IF playerID \in DOMAIN g.Players THEN Ret(g, ErrPlayerExists)
    ELSE Ret([g EXCEPT
                !.Players = addPlayer(g, playerID,
                    NewPlayer(joinColor(g.MaxPlayers, NumPlayers(g)), NumPlayers(g),
                              FALSE, FALSE, FALSE)),
                !.LastActivity = t], OK)

AddBot(g, hostID, botID, t) ==
    IF g.HostID # hostID THEN Ret(g, ErrNotHost)
    ELSE IF g.State # "waiting" THEN Ret(g, ErrGameStarted)
    ELSE IF NumPlayers(g) >= g.MaxPlayers THEN Ret(g, ErrGameFull)
    ELSE Ret([g EXCEPT
                !.Players = addPlayer(g, botID,
                    NewPlayer(joinColor(g.MaxPlayers, NumPlayers(g)), NumPlayers(g),
                              TRUE, FALSE, TRUE)),
                !.LastActivity = t], OK)

RemoveBot(g, hostID, botID, t) ==
    IF g.HostID # hostID THEN Ret(g, ErrNotHost)
    ELSE IF g.State # "waiting" THEN Ret(g, ErrGameStarted)
    ELSE IF botID \notin DOMAIN g.Players THEN Ret(g, ErrPlayerNotFound)
    ELSE IF ~g.Players[botID].IsBot THEN Ret(g, ErrNotABot)
    ELSE Ret([g EXCEPT !.Players = removePlayer(g, botID), !.LastActivity = t], OK)

JoinAsSpectator(g, spectatorID, t) ==
    IF spectatorID \in DOMAIN g.Players THEN Ret(g, ErrPlayerExists)
    ELSE Ret([g EXCEPT !.Spectators = @ \cup {spectatorID}], OK)

SetPlayerReady(g, playerID, ready, t) ==
    IF playerID \notin DOMAIN g.Players THEN Ret(g, ErrPlayerNotFound)
    ELSE Ret([g EXCEPT !.Players[playerID].IsReady = ready, !.LastActivity = t], OK)

\* The loop "for _, player := range g.Players { Order = order; Color = ...; order++ }"
\* visiting the players in the order perm.
reassign(players, perm, maxPlayers) ==
    LET colors == Colors(maxPlayers)
        idx(p) == CHOOSE k \in 1..Len(perm) : perm[k] = p
    IN [p \in DOMAIN players |->
           [players[p] EXCEPT !.Order = idx(p) - 1,
                              !.Color = colors[((idx(p) - 1) % Len(colors)) + 1]]]

KickPlayer(g, hostID, playerID, perm, t) ==
    IF g.HostID # hostID THEN Ret(g, ErrNotHost)
    ELSE IF hostID = playerID THEN Ret(g, ErrCannotKickSelf)
    ELSE IF g.State # "waiting" THEN Ret(g, ErrGameStarted)
    ELSE IF playerID \notin DOMAIN g.Players THEN Ret(g, ErrPlayerNotFound)
    ELSE Ret([g EXCEPT
                !.Players = reassign(removePlayer(g, playerID), perm, g.MaxPlayers),
                !.LastActivity = t], OK)

\* perm is the iteration order of the reassignment loop, first the one of the
\* host-transfer loop (the two range loops are independent in Go).
LeaveGame(g, playerID, first, perm, t) ==
    IF playerID \notin DOMAIN g.Players
    THEN IF playerID \in g.Spectators
         THEN Ret([g EXCEPT !.Spectators = @ \ {playerID}], OK)
         ELSE Ret(g, ErrPlayerNotFound)
    ELSE IF g.State = "waiting"
    THEN LET wasHost == g.Players[playerID].IsHost
             rest == removePlayer(g, playerID)
             transfer == wasHost /\ DOMAIN rest # {}
             hosted == IF transfer
                       THEN [rest EXCEPT ![first].IsHost = TRUE]
                       ELSE rest
         IN Ret([g EXCEPT
                   !.Players = reassign(hosted, perm, g.MaxPlayers),
                   !.HostID = IF transfer THEN first ELSE @,
                   !.LastActivity = t], OK)
    ELSE IF g.State = "playing"
    THEN Ret([(IF g.CurrentTurn = playerID THEN nextTurn(g, t) ELSE g)
                 EXCEPT !.LastActivity = t], OK)
    ELSE Ret([g EXCEPT !.LastActivity = t], OK)

\* perm is the outcome of the Fisher-Yates shuffle of the player ids.
randomizeTurnOrder(g, perm) ==
    [g EXCEPT !.Players =
        [p \in DOMAIN g.Players |->
            [g.Players[p] EXCEPT !.Order = (CHOOSE k \in 1..Len(perm) : perm[k] = p) - 1]]]

\* Variant: the game starts whether or not the players are ready.
StartGameUnready(g, hostID, perm, t) ==
    IF g.HostID # hostID THEN Ret(g, ErrNotHost)
    ELSE IF g.State # "waiting" THEN Ret(g, ErrGameStarted)
    ELSE IF NumPlayers(g) < MinPlayersToStart THEN Ret(g, ErrNotEnoughPlayers)
    ELSE LET r == randomizeTurnOrder(g, perm)
         IN Ret([r EXCEPT
                   !.State = "playing",
                   !.CurrentTurn = CHOOSE p \in DOMAIN r.Players : r.Players[p].Order = 0,
                   !.TurnStartTime = t,
                   !.HasRolled = FALSE,
                   !.ConsecutiveSixes = 0,
                   !.LastActivity = t], OK)

StartGame(g, hostID, perm, t) ==
    IF g.HostID # hostID THEN Ret(g, ErrNotHost)
    ELSE IF g.State # "waiting" THEN Ret(g, ErrGameStarted)
    ELSE IF NumPlayers(g) < MinPlayersToStart THEN Ret(g, ErrNotEnoughPlayers)
    ELSE IF \E p \in DOMAIN g.Players : ~g.Players[p].IsReady
    THEN Ret(g, ErrPlayersNotReady)
    ELSE LET r == randomizeTurnOrder(g, perm)
         IN Ret([r EXCEPT
                   !.State = "playing",
                   !.CurrentTurn = CHOOSE p \in DOMAIN r.Players : r.Players[p].Order = 0,
                   !.TurnStartTime = t,
                   !.HasRolled = FALSE,
                   !.ConsecutiveSixes = 0,
                   !.LastActivity = t], OK)

\* Variant: the pause is accepted in any state.
PauseGameInAnyState(g, playerID, t) ==
    Ret([g EXCEPT !.State = "paused", !.PausedBy = playerID,
                  !.PausedAt = t, !.LastActivity = t], OK)

PauseGame(g, playerID, t) ==
    IF g.State # "playing" THEN Ret(g, ErrCanOnlyPause)
    ELSE Ret([g EXCEPT !.State = "paused", !.PausedBy = playerID,
                       !.PausedAt = t, !.LastActivity = t], OK)

\* Variant: resume leaves TurnStartTime where it was.
ResumeGameKeepsTurnStart(g, playerID, t) ==
    IF g.State # "paused" THEN Ret(g, ErrGameNotPaused)
    ELSE Ret([g EXCEPT !.State = "playing", !.PausedBy = "",
                       !.LastActivity = t], OK)

ResumeGame(g, playerID, t) ==
    IF g.State # "paused" THEN Ret(g, ErrGameNotPaused)
    ELSE Ret([g EXCEPT !.TurnStartTime = @ + (t - g.PausedAt),
                       !.State = "playing", !.PausedBy = "",
                       !.LastActivity = t], OK)

\* Variant: a roll is accepted although the player has rolled already.
RollDiceAgain(g, playerID, roll, t) ==
    IF g.State = "paused" THEN [g |-> g, err |-> ErrGamePaused, roll |-> 0]
    ELSE IF g.State # "playing" THEN [g |-> g, err |-> ErrNotPlayingState, roll |-> 0]
    ELSE IF g.CurrentTurn # playerID THEN [g |-> g, err |-> ErrNotPlayerTurn, roll |-> 0]
    ELSE LET g1 == [g EXCEPT !.LastDiceRoll = roll, !.HasRolled = TRUE,
                             !.LastActivity = t]
         IN IF roll = DiceSides
            THEN IF g1.ConsecutiveSixes + 1 >= MaxConsecutiveSixes
                 THEN [g |-> nextTurn([g1 EXCEPT !.ConsecutiveSixes = 0,
                                                 !.HasRolled = FALSE], t),
                       err |-> ErrThreeSixes, roll |-> roll]
                 ELSE [g |-> [g1 EXCEPT !.ConsecutiveSixes = @ + 1],
                       err |-> OK, roll |-> roll]
            ELSE [g |-> [g1 EXCEPT !.ConsecutiveSixes = 0], err |-> OK, roll |-> roll]

\* Variant: the turn is forfeited one six late (> in place of >=).
RollDiceForfeitsLate(g, playerID, roll, t) ==
    IF g.State = "paused" THEN [g |-> g, err |-> ErrGamePaused, roll |-> 0]
    ELSE IF g.State # "playing" THEN [g |-> g, err |-> ErrNotPlayingState, roll |-> 0]
    ELSE IF g.CurrentTurn # playerID THEN [g |-> g, err |-> ErrNotPlayerTurn, roll |-> 0]
    ELSE IF g.HasRolled THEN [g |-> g, err |-> ErrAlreadyRolled, roll |-> 0]
    ELSE LET g1 == [g EXCEPT !.LastDiceRoll = roll, !.HasRolled = TRUE,
                             !.LastActivity = t]
         IN IF roll = DiceSides
            THEN IF g1.ConsecutiveSixes + 1 > MaxConsecutiveSixes
                 THEN [g |-> nextTurn([g1 EXCEPT !.ConsecutiveSixes = 0,
                                                 !.HasRolled = FALSE], t),
                       err |-> ErrThreeSixes, roll |-> roll]
                 ELSE [g |-> [g1 EXCEPT !.ConsecutiveSixes = @ + 1],
                       err |-> OK, roll |-> roll]
            ELSE [g |-> [g1 EXCEPT !.ConsecutiveSixes = 0], err |-> OK, roll |-> roll]

\* roll is what SecureRollDice draws.  Returns the roll as well (0 on rejection).
RollDice(g, playerID, roll, t) ==
    IF g.State = "paused" THEN [g |-> g, err |-> ErrGamePaused, roll |-> 0]
    ELSE IF g.State # "playing" THEN [g |-> g, err |-> ErrNotPlayingState, roll |-> 0]
    ELSE IF g.CurrentTurn # playerID THEN [g |-> g, err |-> ErrNotPlayerTurn, roll |-> 0]
    ELSE IF g.HasRolled THEN [g |-> g, err |-> ErrAlreadyRolled, roll |-> 0]
    ELSE LET g1 == [g EXCEPT !.LastDiceRoll = roll, !.HasRolled = TRUE,
                             !.LastActivity = t]
         IN IF roll = DiceSides
            THEN IF g1.ConsecutiveSixes + 1 >= MaxConsecutiveSixes
                 THEN [g |-> nextTurn([g1 EXCEPT !.ConsecutiveSixes = 0,
                                                 !.HasRolled = FALSE], t),
                       err |-> ErrThreeSixes, roll |-> roll]
                 ELSE [g |-> [g1 EXCEPT !.ConsecutiveSixes = @ + 1],
                       err |-> OK, roll |-> roll]
            ELSE [g |-> [g1 EXCEPT !.ConsecutiveSixes = 0], err |-> OK, roll |-> roll]

\* What the placement part of MovePiece yields: the piece after the move, the
\* players after the captures and whether a piece was captured; or a rejection.
Placed(piece, players, captured) ==
    [rejected |-> FALSE, piece |-> piece, players |-> players, captured |-> captured]

Rejected(piece, players) ==
    [rejected |-> TRUE, piece |-> piece, players |-> players, captured |-> FALSE]

\* Variant: the stretch index is left where it was when the piece finishes.
finishPieceKeepsStretchIndex(piece, pieceID) ==
    [piece EXCEPT !.Position = FinishPosition + pieceID,
                  !.IsFinished = TRUE,
                  !.IsSafe = TRUE]

finishPiece(piece, pieceID) ==
    [piece EXCEPT !.Position = FinishPosition + pieceID,
                  !.HomeStretchPosition = HomeStretchSize,
                  !.IsFinished = TRUE,
                  !.IsSafe = TRUE]

\* "Check for captures (only if not in safe zone)": cap is what checkAndCapture did.
landOn(piece, newPos, cap) ==
    Placed([piece EXCEPT !.Position = newPos, !.IsSafe = FALSE], cap.players, cap.captured)

\* Variant: the capture is made on safe cells as well.
placeOnBoardCapturesOnSafeCells(g, playerID, piece, pieceID, c) ==
    IF c.entered
    THEN IF c.hs > HomeStretchSize THEN Rejected(piece, g.Players)
         ELSE IF c.hs = HomeStretchSize
         THEN Placed(finishPiece(piece, pieceID), g.Players, FALSE)
         ELSE Placed([piece EXCEPT !.Position = StretchPosition,
                                   !.HomeStretchPosition = c.hs,
                                   !.IsSafe = TRUE], g.Players, FALSE)
    ELSE landOn([piece EXCEPT !.IsSafe = IsSafeZone(c.pos, g.MaxPlayers)], c.pos,
                checkAndCapture(g.Players, playerID, c.pos))

\* "Normal move on main board": c is what calculateNewPosition returned.
placeOnBoard(g, playerID, piece, pieceID, c) ==
    IF c.entered
    THEN IF c.hs > HomeStretchSize THEN Rejected(piece, g.Players)
         ELSE IF c.hs = HomeStretchSize
         THEN Placed(finishPiece(piece, pieceID), g.Players, FALSE)
         ELSE Placed([piece EXCEPT !.Position = StretchPosition,
                                   !.HomeStretchPosition = c.hs,
                                   !.IsSafe = TRUE], g.Players, FALSE)
    ELSE IF IsSafeZone(c.pos, g.MaxPlayers)
    THEN Placed([piece EXCEPT !.Position = c.pos, !.IsSafe = TRUE], g.Players, FALSE)
    ELSE landOn(piece, c.pos, checkAndCapture(g.Players, playerID, c.pos))

\* Variant: a piece leaves home on any roll.
placePieceLeavesHomeOnAnyRoll(g, playerID, player, piece, pieceID) ==
    IF piece.IsFinished THEN Rejected(piece, g.Players)
    ELSE IF piece.IsHome
    THEN Placed([piece EXCEPT !.IsHome = FALSE,
                              !.Position = GetStartPosition(player.Color, g.MaxPlayers),
                              !.IsSafe = TRUE], g.Players, FALSE)
    ELSE IF piece.HomeStretchPosition > 0
    THEN IF piece.HomeStretchPosition + g.LastDiceRoll > HomeStretchSize
         THEN Rejected(piece, g.Players)
         ELSE IF piece.HomeStretchPosition + g.LastDiceRoll = HomeStretchSize
         THEN Placed(finishPiece(piece, pieceID), g.Players, FALSE)
         ELSE Placed([piece EXCEPT !.HomeStretchPosition = @ + g.LastDiceRoll,
                                   !.IsSafe = TRUE], g.Players, FALSE)
    ELSE placeOnBoard(g, playerID, piece, pieceID,
                      calculateNewPosition(g, player.Color, piece.Position, g.LastDiceRoll))

placePiece(g, playerID, player, piece, pieceID) ==
    IF piece.IsFinished THEN Rejected(piece, g.Players)
    ELSE IF piece.IsHome
    THEN IF g.LastDiceRoll # DiceSides THEN Rejected(piece, g.Players)
         ELSE Placed([piece EXCEPT !.IsHome = FALSE,
                                   !.Position = GetStartPosition(player.Color, g.MaxPlayers),
                                   !.IsSafe = TRUE], g.Players, FALSE)
    ELSE IF piece.HomeStretchPosition > 0
    THEN IF piece.HomeStretchPosition + g.LastDiceRoll > HomeStretchSize
         THEN Rejected(piece, g.Players)
         ELSE IF piece.HomeStretchPosition + g.LastDiceRoll = HomeStretchSize
         THEN Placed(finishPiece(piece, pieceID), g.Players, FALSE)
         ELSE Placed([piece EXCEPT !.HomeStretchPosition = @ + g.LastDiceRoll,
                                   !.IsSafe = TRUE], g.Players, FALSE)
    ELSE placeOnBoard(g, playerID, piece, pieceID,
                      calculateNewPosition(g, player.Color, piece.Position, g.LastDiceRoll))

moveRecord(g, playerID, pieceID, old, new, captured, t) ==
    [PlayerID |-> playerID,
     PieceID |-> pieceID,
     FromPos |-> IF old.HomeStretchPosition > 0 THEN -old.HomeStretchPosition
                 ELSE old.Position,
     ToPos |-> new.Position,
     DiceRoll |-> g.LastDiceRoll,
     WasCapture |-> captured,
     Timestamp |-> t,
     WasFromHome |-> old.IsHome]

\* Variant: only a six earns the extra turn.
extraTurnOnSixOnly(g, captured) ==
    g.LastDiceRoll = DiceSides

\* "Extra turn if: rolled 6 (and not 3 sixes), or captured a piece (if enabled)".
extraTurn(g, captured) ==
    g.LastDiceRoll = DiceSides \/ (captured /\ g.CaptureGrantsTurn)

\* Variant: the session ends without a winner being recorded.
endMoveWithoutWinner(g1, playerID, captured, t) ==
    IF \A k \in 1..PiecesPerPlayer : g1.Players[playerID].Pieces[k].IsFinished
    THEN Ret([g1 EXCEPT !.State = "ended", !.HasRolled = FALSE], OK)
    ELSE IF ~extraTurn(g1, captured)
    THEN Ret(nextTurn([g1 EXCEPT !.LastActivity = t, !.HasRolled = FALSE,
                                 !.ConsecutiveSixes = 0], t), OK)
    ELSE Ret([g1 EXCEPT !.LastActivity = t, !.HasRolled = FALSE], OK)

\* The end of MovePiece: g1 is the session with the move made and recorded.
endMove(g1, playerID, captured, t) ==
    IF \A k \in 1..PiecesPerPlayer : g1.Players[playerID].Pieces[k].IsFinished
    THEN Ret([g1 EXCEPT !.State = "ended", !.Winner = playerID, !.HasRolled = FALSE], OK)
    ELSE IF ~extraTurn(g1, captured)
    THEN Ret(nextTurn([g1 EXCEPT !.LastActivity = t, !.HasRolled = FALSE,
                                 !.ConsecutiveSixes = 0], t), OK)
    ELSE Ret([g1 EXCEPT !.LastActivity = t, !.HasRolled = FALSE], OK)

\* Variant: the roll is used up before the move is found illegal.
recordMoveSpendsRoll(g, playerID, pieceID, old, m, t) ==
    IF m.rejected THEN Ret([g EXCEPT !.HasRolled = FALSE], ErrInvalidMove)
    ELSE endMove([g EXCEPT
                    !.Players = [m.players EXCEPT ![playerID].Pieces[pieceID + 1] = m.piece],
                    !.MoveHistory = Append(@, moveRecord(g, playerID, pieceID, old,
                                                         m.piece, m.captured, t))],
                 playerID, m.captured, t)

\* The middle of MovePiece: m is what the placement yielded for the piece old.
recordMove(g, playerID, pieceID, old, m, t) ==
    IF m.rejected THEN Ret(g, ErrInvalidMove)
    ELSE endMove([g EXCEPT
                    !.Players = [m.players EXCEPT ![playerID].Pieces[pieceID + 1] = m.piece],
                    !.MoveHistory = Append(@, moveRecord(g, playerID, pieceID, old,
                                                         m.piece, m.captured, t))],
                 playerID, m.captured, t)

MovePiece(g, playerID, pieceID, t) ==
    IF g.State = "paused" THEN Ret(g, ErrGamePaused)
    ELSE IF g.State # "playing" THEN Ret(g, ErrNotPlayingState)
    ELSE IF g.CurrentTurn # playerID THEN Ret(g, ErrNotPlayerTurn)
    ELSE IF ~g.HasRolled THEN Ret(g, ErrMustRollFirst)
    ELSE IF playerID \notin DOMAIN g.Players THEN Ret(g, ErrPlayerNotFound)
    ELSE IF pieceID < 0 \/ pieceID >= PiecesPerPlayer THEN Ret(g, ErrInvalidPieceID)
    ELSE recordMove(g, playerID, pieceID, g.Players[playerID].Pieces[pieceID + 1],
                    placePiece(g, playerID, g.Players[playerID],
                               g.Players[playerID].Pieces[pieceID + 1], pieceID),
                    t)

SkipTurn(g, playerID, t) ==
    IF g.State = "paused" THEN Ret(g, ErrGamePaused)
    ELSE IF g.State # "playing" THEN Ret(g, ErrNotPlayingState)
    ELSE IF g.CurrentTurn # playerID THEN Ret(g, ErrNotPlayerTurn)
    ELSE IF ~g.HasRolled THEN Ret(g, ErrMustRollFirst)
    ELSE Ret(nextTurn([g EXCEPT !.HasRolled = FALSE, !.ConsecutiveSixes = 0], t), OK)

IsTurnTimedOut(g, t) ==
    IF g.State # "playing" \/ g.TurnStartTime = ZeroTime THEN FALSE
    ELSE t - g.TurnStartTime > DefaultTurnTimeout

\* Variant: the driver's call never skips.
ForceSkipTurnNever(g, t) == [g |-> g, skipped |-> ""]

\* Variant: the turn is skipped without testing again that it has timed out.
ForceSkipTurnUnchecked(g, t) ==
    IF g.State # "playing" THEN [g |-> g, skipped |-> ""]
    ELSE [g |-> [nextTurn([g EXCEPT !.HasRolled = FALSE], t)
                    EXCEPT !.ConsecutiveSixes = 0],
          skipped |-> g.CurrentTurn]

\* Returns the skipped player's id, "" when nothing was skipped.
ForceSkipTurn(g, t) ==
    IF g.State # "playing" THEN [g |-> g, skipped |-> ""]
    ELSE IF g.TurnStartTime = ZeroTime \/ t - g.TurnStartTime <= DefaultTurnTimeout
    THEN [g |-> g, skipped |-> ""]
    ELSE [g |-> [nextTurn([g EXCEPT !.HasRolled = FALSE], t)
                    EXCEPT !.ConsecutiveSixes = 0],
          skipped |-> g.CurrentTurn]

\* A chat text is its byte length and its text after strings.TrimSpace.
Messages == {[len |-> 4, trimmed |-> "hi"], [len |-> MaxChatMessageLen + 1, trimmed |-> "long"]}

SendChatMessage(g, playerID, message, t) ==
    IF playerID \notin DOMAIN g.Players
    THEN IF playerID \in g.Spectators
         THEN IF message.len > MaxChatMessageLen THEN Ret(g, ErrChatTooLong)
              ELSE Ret([g EXCEPT !.ChatMessages =
                          Append(@, [PlayerID |-> playerID, Message |-> message.trimmed,
                                     Timestamp |-> t, IsSpectator |-> TRUE])], OK)
         ELSE Ret(g, ErrPlayerNotFound)
    ELSE IF message.len > MaxChatMessageLen THEN Ret(g, ErrChatTooLong)
    ELSE Ret([g EXCEPT !.ChatMessages =
                 Append(@, [PlayerID |-> playerID, Message |-> message.trimmed,
                            Timestamp |-> t, IsSpectator |-> FALSE]),
                       !.LastActivity = t], OK)

Rematch(g, hostID, t) ==
    IF g.HostID # hostID THEN Ret(g, ErrNotHost)
    ELSE IF g.State # "ended" THEN Ret(g, ErrCanOnlyRematch)
    ELSE Ret([g EXCEPT
                !.Players = [p \in DOMAIN g.Players |->
                                [g.Players[p] EXCEPT !.IsReady = FALSE,
                                                     !.Pieces = NewPieces]],
                !.State = "waiting",
                !.CurrentTurn = "",
                !.LastDiceRoll = 0,
                !.HasRolled = FALSE,
                !.ConsecutiveSixes = 0,
                !.Winner = "",
                !.MoveHistory = <<>>,
                !.ChatMessages = <<>>,
                !.TurnStartTime = ZeroTime,
                !.LastActivity = t], OK)

----------------------------------------------------------------------------
\* The callers and inputs that are enumerated.

Host == "h"
Humans == {"h", "p1"}
Outsider == "s1"
BotID(n) == "bot_" \o ToString(n)
Callers == Humans \cup {Outsider} \cup {BotID(n) : n \in 1..botSeq}
PieceArgs == -1..PiecesPerPlayer
Rolls == 1..DiceSides
MaxPlayersArgs == {2, 4, 6}
TickSteps == {DefaultTurnTimeout + 1}
StartClock == ZeroTime + 1
NoPiece == -PiecesPerPlayer

Call(op, pid, err) == [op |-> op, pid |-> pid, err |-> err, piece |-> NoPiece, roll |-> 0]

----------------------------------------------------------------------------
\* Positions a game in progress can be in (two players, host first).

onTrack(i, pos, maxPlayers) ==
    [ID |-> i, Position |-> pos, HomeStretchPosition |-> 0, IsHome |-> FALSE,
     IsSafe |-> IsSafeZone(pos, maxPlayers), IsFinished |-> FALSE]

inStretch(i, k) ==
    [ID |-> i, Position |-> StretchPosition, HomeStretchPosition |-> k, IsHome |-> FALSE,
     IsSafe |-> TRUE, IsFinished |-> FALSE]

finished(i) ==
    [ID |-> i, Position |-> FinishPosition + i, HomeStretchPosition |-> HomeStretchSize,
     IsHome |-> FALSE, IsSafe |-> TRUE, IsFinished |-> TRUE]

InProgress(maxPlayers, hostPieces, guestPieces, turn, sixes) ==
    LET fresh == JoinGame(CreateGame(Host, maxPlayers, StartClock), "p1", StartClock).g
    IN [fresh EXCEPT
          !.Players[Host].Pieces = hostPieces,
          !.Players[Host].IsReady = TRUE,
          !.Players["p1"].Pieces = guestPieces,
          !.Players["p1"].IsReady = TRUE,
          !.State = "playing",
          !.CurrentTurn = turn,
          !.TurnStartTime = StartClock,
          !.ConsecutiveSixes = sixes,
          !.LastDiceRoll = IF sixes > 0 THEN DiceSides ELSE 1]

\* A lobby where the guest has joined and both players have declared ready.
ReadyLobby(maxPlayers) ==
    SetPlayerReady(
        SetPlayerReady(
            JoinGame(CreateGame(Host, maxPlayers, StartClock), "p1", StartClock).g,
            "p1", TRUE, StartClock).g,
        Host, TRUE, StartClock).g

Lobbies ==
    {CreateGame(Host, m, StartClock) : m \in MaxPlayersArgs} \cup {ReadyLobby(4)}

\* Three players, the third a bot; the shuffle put the bot second.
InProgressWithBot(hostPieces, guestPieces, botPieces, turn, sixes) ==
    LET fresh == AddBot(JoinGame(CreateGame(Host, 4, StartClock), "p1", StartClock).g,
                        Host, BotID(1), StartClock).g
    IN [fresh EXCEPT
          !.Players[Host].Pieces = hostPieces,
          !.Players[Host].IsReady = TRUE,
          !.Players["p1"].Pieces = guestPieces,
          !.Players["p1"].IsReady = TRUE,
          !.Players["p1"].Order = 2,
          !.Players[BotID(1)].Pieces = botPieces,
          !.Players[BotID(1)].Order = 1,
          !.State = "playing",
          !.CurrentTurn = turn,
          !.TurnStartTime = StartClock,
          !.ConsecutiveSixes = sixes,
          !.LastDiceRoll = IF sixes > 0 THEN DiceSides ELSE 1]

\* sixes = 1 is the extra turn after a six was rolled and moved.
BotPositions ==
    { InProgressWithBot(<<onTrack(0, 3, 4), NewPiece(1), NewPiece(2), NewPiece(3)>>,
                        <<onTrack(0, 20, 4), NewPiece(1), NewPiece(2), NewPiece(3)>>,
                        <<onTrack(0, 5, 4), NewPiece(1), NewPiece(2), NewPiece(3)>>,
                        Host, sixes) : sixes \in 0..1 }
    \cup
    \* the host is one piece from winning a game with a bot in it
    { InProgressWithBot(<<finished(0), finished(1), finished(2), inStretch(3, 3)>>,
                        <<onTrack(0, 20, 4), NewPiece(1), NewPiece(2), NewPiece(3)>>,
                        <<onTrack(0, 5, 4), NewPiece(1), NewPiece(2), NewPiece(3)>>,
                        Host, 0) }

Positions ==
    UNION { {
       \* a capture and a safe cell within reach of the host (red, start 0)
       InProgress(4, <<onTrack(0, 3, 4), NewPiece(1), NewPiece(2), NewPiece(3)>>,
                     <<onTrack(0, 5, 4), onTrack(1, 8, 4), onTrack(2, 5, 4), NewPiece(3)>>,
                  Host, sixes),
       \* the stretch entry (50) and the exact roll to finish
       InProgress(4, <<onTrack(0, 48, 4), inStretch(1, 4), finished(2), finished(3)>>,
                     <<onTrack(0, 50, 4), NewPiece(1), NewPiece(2), NewPiece(3)>>,
                  Host, sixes),
       \* one piece from winning
       InProgress(2, <<finished(0), finished(1), finished(2), inStretch(3, 3)>>,
                     <<onTrack(0, 20, 2), NewPiece(1), NewPiece(2), NewPiece(3)>>,
                  Host, sixes),
       \* the guest (blue, start 13, entry 11) wraps around the end of the track
       InProgress(4, <<onTrack(0, 2, 4), onTrack(1, 0, 4), NewPiece(2), NewPiece(3)>>,
                     <<onTrack(0, 49, 4), onTrack(1, 10, 4), NewPiece(2), NewPiece(3)>>,
                  "p1", sixes),
       \* the 72-cell board (both players red there: start 12, entry 10)
       InProgress(6, <<onTrack(0, 9, 6), inStretch(1, 2), onTrack(2, 1, 6), finished(3)>>,
                     <<onTrack(0, 70, 6), onTrack(1, 14, 6), NewPiece(2), NewPiece(3)>>,
                  "p1", sixes) } : sixes \in 0..1 }

\* A game that was paused by the host as soon as the turn began.
PausedPositions ==
    { PauseGame(InProgress(4, <<onTrack(0, 3, 4), NewPiece(1), NewPiece(2), NewPiece(3)>>,
                              <<onTrack(0, 20, 4), NewPiece(1), NewPiece(2), NewPiece(3)>>,
                           Host, 0),
                Host, StartClock).g }

----------------------------------------------------------------------------
\* The state machine.

\* No request is under way, no event has been handed over, the session is in
\* the manager's map.
\* The subscribers that connect and the room each one names when it connects.
Clients == {"c1", "c2", "c3"}
Rooms == {"A", "B"}
gameCode == [c \in Clients |-> IF c = "c3" THEN "B" ELSE "A"]

\* NewHub: no room has subscribers; no client has connected.
NewHub ==
    [games   |-> [r \in {} |-> {}],
     send    |-> [c \in Clients |-> <<>>],
     closes  |-> [c \in Clients |-> 0],
     written |-> [c \in Clients |-> <<>>],
     reader  |-> [c \in Clients |-> "none"],
     writer  |-> [c \in Clients |-> "none"],
     queued  |-> <<>>,
     listing |-> 0,
     fault   |-> ""]

Quiet ==
    /\ tasks = {}
    /\ events = <<>>
    /\ applied = 0
    /\ removed = FALSE
    /\ travelled = 0
    /\ hub = NewHub
    /\ serial = {}

Init ==
    /\ \/ /\ game \in Lobbies \cup Positions \cup PausedPositions
          /\ botSeq = 0
       \/ /\ game \in BotPositions
          /\ botSeq = 1
    /\ now = StartClock
    /\ steps = 0
    /\ last = Call("create", Host, OK)
    /\ Quiet

\* Every call counts towards the bound on the length of a run.
Counted ==
    /\ steps < MaxSteps
    /\ steps' = steps + 1
    /\ UNCHANGED hvars

DoJoinGame ==
    /\ Counted
    /\ \E pid \in Humans :
           LET r == JoinGame(game, pid, now)
           IN /\ game' = r.g
              /\ last' = Call("join", pid, r.err)
              /\ UNCHANGED <<now, botSeq>>

DoAddBot ==
    /\ Counted
    /\ \E hostID \in Humans :
           LET r == AddBot(game, hostID, BotID(botSeq + 1), now)
           IN /\ game' = r.g
              /\ botSeq' = IF r.err = OK THEN botSeq + 1 ELSE botSeq
              /\ last' = Call("addBot", hostID, r.err)
              /\ UNCHANGED now

DoRemoveBot ==
    /\ Counted
    /\ \E hostID \in Humans, botID \in Callers :
           LET r == RemoveBot(game, hostID, botID, now)
           IN /\ game' = r.g
              /\ last' = Call("removeBot", hostID, r.err)
              /\ UNCHANGED <<now, botSeq>>

DoJoinAsSpectator ==
    /\ Counted
    /\ \E sid \in {Host, Outsider} :
           LET r == JoinAsSpectator(game, sid, now)
           IN /\ game' = r.g
              /\ last' = Call("spectate", sid, r.err)
              /\ UNCHANGED <<now, botSeq>>

DoSetPlayerReady ==
    /\ Counted
    /\ \E pid \in Callers, ready \in BOOLEAN :
           LET r == SetPlayerReady(game, pid, ready, now)
           IN /\ game' = r.g
              /\ last' = Call("ready", pid, r.err)
              /\ UNCHANGED <<now, botSeq>>

DoKickPlayer ==
    /\ Counted
    /\ \E hostID \in Humans, pid \in Callers :
           \E perm \in Perms(DOMAIN game.Players \ {pid}) :
               LET r == KickPlayer(game, hostID, pid, perm, now)
               IN /\ game' = r.g
                  /\ last' = Call("kick", hostID, r.err)
                  /\ UNCHANGED <<now, botSeq>>

DoLeaveGame ==
    /\ Counted
    /\ \E pid \in Callers :
           \E perm \in Perms(DOMAIN game.Players \ {pid}) :
               \E first \in (IF DOMAIN game.Players \ {pid} = {} THEN {pid}
                             ELSE DOMAIN game.Players \ {pid}) :
                   LET r == LeaveGame(game, pid, first, perm, now)
                   IN /\ game' = r.g
                      /\ last' = Call("leave", pid, r.err)
                      /\ UNCHANGED <<now, botSeq>>

DoStartGame ==
    /\ Counted
    /\ \E hostID \in Humans :
           \E perm \in Perms(DOMAIN game.Players) :
               LET r == StartGame(game, hostID, perm, now)
               IN /\ game' = r.g
                  /\ last' = Call("start", hostID, r.err)
                  /\ UNCHANGED <<now, botSeq>>

DoPauseGame ==
    /\ Counted
    /\ \E pid \in Humans :
           LET r == PauseGame(game, pid, now)
           IN /\ game' = r.g
              /\ last' = Call("pause", pid, r.err)
              /\ UNCHANGED <<now, botSeq>>

DoResumeGame ==
    /\ Counted
    /\ \E pid \in Humans :
           LET r == ResumeGame(game, pid, now)
           IN /\ game' = r.g
              /\ last' = Call("resume", pid, r.err)
              /\ UNCHANGED <<now, botSeq>>

DoRollDice ==
    /\ Counted
    /\ \E pid \in Callers, roll \in Rolls :
           LET r == RollDice(game, pid, roll, now)
           IN /\ game' = r.g
              /\ last' = [Call("roll", pid, r.err) EXCEPT !.roll = r.roll]
              /\ UNCHANGED <<now, botSeq>>

DoMovePiece ==
    /\ Counted
    /\ \E pid \in Callers, pieceID \in PieceArgs :
           LET r == MovePiece(game, pid, pieceID, now)
           IN /\ game' = r.g
              /\ last' = [Call("move", pid, r.err) EXCEPT
                             !.piece = IF r.err = OK THEN pieceID ELSE NoPiece]
              /\ UNCHANGED <<now, botSeq>>

DoSkipTurn ==
    /\ Counted
    /\ \E pid \in Callers :
           LET r == SkipTurn(game, pid, now)
           IN /\ game' = r.g
              /\ last' = Call("skip", pid, r.err)
              /\ UNCHANGED <<now, botSeq>>

DoForceSkipTurn ==
    /\ Counted
    /\ LET r == ForceSkipTurn(game, now)
       IN /\ game' = r.g
          /\ last' = Call("forceSkip", r.skipped, OK)
          /\ UNCHANGED <<now, botSeq>>

DoSendChatMessage ==
    /\ Counted
    /\ \E pid \in Callers, message \in Messages :
           LET r == SendChatMessage(game, pid, message, now)
           IN /\ game' = r.g
              /\ last' = Call("chat", pid, r.err)
              /\ UNCHANGED <<now, botSeq>>

DoRematch ==
    /\ Counted
    /\ \E hostID \in Humans :
           LET r == Rematch(game, hostID, now)
           IN /\ game' = r.g
              /\ last' = Call("rematch", hostID, r.err)
              /\ UNCHANGED <<now, botSeq>>

Tick ==
    /\ Counted
    /\ \E d \in TickSteps : now' = now + d
    /\ last' = Call("tick", "", OK)
    /\ UNCHANGED <<game, botSeq>>

Next ==
    \/ DoJoinGame
    \/ DoAddBot
    \/ DoRemoveBot
    \/ DoJoinAsSpectator
    \/ DoSetPlayerReady
    \/ DoKickPlayer
    \/ DoLeaveGame
    \/ DoStartGame
    \/ DoPauseGame
    \/ DoResumeGame
    \/ DoRollDice
    \/ DoMovePiece
    \/ DoSkipTurn
    \/ DoForceSkipTurn
    \/ DoSendChatMessage
    \/ DoRematch
    \/ Tick

Spec == Init /\ [][Next]_vars

----------------------------------------------------------------------------
\* The sweep of abandoned sessions, on a clock that reaches its thresholds.

MaxSweepSteps == 4   \* clock advances, chats and sweeps in one behaviour

DefaultGameTTL == 86400
DefaultInactivityTTL == 1800
CleanupInterval == 300
EmptyGameTTL == 300

\* Variant: a session without players is not removed on that ground.
shouldRemoveKeepsEmpty(g, t) ==
    \/ g.State = "ended" /\ t - g.LastActivity > DefaultInactivityTTL
    \/ g.State = "waiting" /\ t - g.LastActivity > DefaultInactivityTTL
    \/ t - g.CreatedAt > DefaultGameTTL

\* The body of the loop of CleanupAbandonedGames for one session at time t.
shouldRemove(g, t) ==
    \/ g.State = "ended" /\ t - g.LastActivity > DefaultInactivityTTL
    \/ g.State = "waiting" /\ t - g.LastActivity > DefaultInactivityTTL
    \/ t - g.CreatedAt > DefaultGameTTL
    \/ NumPlayers(g) = 0 /\ t - g.CreatedAt > EmptyGameTTL

\* Sessions in each state, one of them emptied by its host, all created and last
\* touched at StartClock.
SweepSessions ==
    LET lobby == CreateGame(Host, 4, StartClock)
        play == InProgress(2, <<finished(0), finished(1), finished(2), inStretch(3, 3)>>,
                              <<onTrack(0, 20, 2), NewPiece(1), NewPiece(2), NewPiece(3)>>,
                           Host, 0)
    IN { lobby,
         LeaveGame(lobby, Host, Host, <<>>, StartClock).g,
         play,
         PauseGame(play, Host, StartClock).g,
         MovePiece(RollDice(play, Host, 3, StartClock).g, Host, 3, StartClock).g }

\* The clock between two looks at it: up to and just past each threshold.
SweepTicks ==
    UNION { {d, d + 1} : d \in {CleanupInterval, DefaultInactivityTTL, DefaultGameTTL} }

SweepInit ==
    /\ game \in SweepSessions
    /\ now = StartClock
    /\ steps = 0
    /\ botSeq = 0
    /\ last = Call("create", Host, OK)
    /\ Quiet

SweepCounted ==
    /\ steps < MaxSweepSteps
    /\ steps' = steps + 1
    /\ UNCHANGED <<botSeq, tasks, events, applied, travelled, hub, serial>>

SweepTick ==
    /\ SweepCounted
    /\ \E d \in SweepTicks : now' = now + d
    /\ last' = Call("tick", "", OK)
    /\ UNCHANGED <<game, removed>>

\* The host says something in the chat of a session that is still there.
SweepChat ==
    /\ SweepCounted
    /\ ~removed
    /\ LET r == SendChatMessage(game, Host, [len |-> 2, trimmed |-> "hi"], now)
       IN /\ game' = r.g
          /\ last' = Call("chat", Host, r.err)
    /\ UNCHANGED <<now, removed>>

DoCleanupAbandonedGames ==
    /\ SweepCounted
    /\ ~removed
    /\ removed' = shouldRemove(game, now)
    /\ last' = Call("sweep", "", OK)
    /\ UNCHANGED <<game, now>>

SweepNext ==
    \/ SweepTick
    \/ SweepChat
    \/ DoCleanupAbandonedGames

SweepSpec == SweepInit /\ [][SweepNext]_vars

----------------------------------------------------------------------------
\* Request handlers and the timeout driver as concurrent tasks.  A task takes
\* one step for each time it takes the session's lock, and one for handing its
\* event to the hub; between two steps of a task any other task may run.

MaxConcSteps == 5    \* steps of handlers, driver and clock in one behaviour
MaxTasks == 3        \* handlers and driver passes under way at the same time

ErrHasValidMoves == "Cannot skip turn when valid moves are available"

\* GetGameState: the fields of the session that go into a snapshot.
GetGameState(g) ==
    [players |-> g.Players,
     spectators |-> g.Spectators,
     state |-> g.State,
     current_turn |-> g.CurrentTurn,
     max_players |-> g.MaxPlayers,
     last_dice_roll |-> g.LastDiceRoll,
     has_rolled |-> g.HasRolled,
     winner |-> g.Winner,
     turn_start_time |-> g.TurnStartTime,
     last_activity |-> g.LastActivity,
     consecutive_sixes |-> g.ConsecutiveSixes,
     host_id |-> g.HostID,
     paused_by |-> g.PausedBy,
     capture_grants_turn |-> g.CaptureGrantsTurn]

\* A task: the handler or driver (kind), the player of the request (for the
\* driver: the player it skipped), how far it has come (phase), the number of its
\* operation among those that took effect (op), the session as its operation left
\* it (post, kept for comparison only) and the snapshot it has taken (snap); post
\* and snap are empty or hold one element.
Task(kind, pid, phase, op, post, snap) ==
    [kind |-> kind, pid |-> pid, phase |-> phase, op |-> op, post |-> post, snap |-> snap]

\* The event a task hands to the hub.
Event(type, task, moves) ==
    [type |-> type, pid |-> task.pid, op |-> task.op, post |-> task.post,
     snap |-> task.snap, valid_moves |-> moves, sent |-> task.snap]

EventType(kind) ==
    IF kind = "move" THEN "piece_moved"
    ELSE IF kind = "skip" THEN "turn_skipped"
    ELSE "turn_timeout"

\* A game that has just been started, and one in which the host has rolled a 5
\* with a piece on cell 3.
ConcSessions ==
    { StartGame(ReadyLobby(4), Host, <<Host, "p1">>, StartClock).g,
      RollDice(InProgress(4, <<onTrack(0, 3, 4), NewPiece(1), NewPiece(2), NewPiece(3)>>,
                             <<onTrack(0, 20, 4), NewPiece(1), NewPiece(2), NewPiece(3)>>,
                          Host, 0),
               Host, 5, StartClock).g }

ConcInit ==
    /\ game \in ConcSessions
    /\ now = StartClock
    /\ steps = 0
    /\ botSeq = 0
    /\ last = Call("create", Host, OK)
    /\ Quiet

ConcCounted ==
    /\ steps < MaxConcSteps
    /\ steps' = steps + 1
    /\ serial' = serial \cup {GetGameState(game)}
    /\ UNCHANGED <<botSeq, removed, travelled, hub>>

CanBegin == Cardinality(tasks) < MaxTasks

\* Handler.RollDice up to the return of Game.RollDice.
HandleRollDice ==
    /\ ConcCounted
    /\ CanBegin
    /\ \E pid \in Humans, roll \in Rolls :
           LET r == RollDice(game, pid, roll, now)
               done == r.err \in {OK, ErrThreeSixes}
           IN /\ game' = r.g
              /\ last' = [Call("roll", pid, r.err) EXCEPT !.roll = r.roll]
              /\ applied' = IF done THEN applied + 1 ELSE applied
              /\ tasks' = IF done
                          THEN tasks \cup {Task("roll", pid, "applied", applied + 1,
                                                <<r.g>>, <<>>)}
                          ELSE tasks
    /\ UNCHANGED <<now, events>>

\* The rest of Handler.RollDice: GetValidMoves, UpdateActivity and the hand-over
\* of dice_rolled, taken in one step.
ReportRoll ==
    /\ ConcCounted
    /\ \E task \in tasks :
           /\ task.kind = "roll"
           /\ game' = [game EXCEPT !.LastActivity = now]
           /\ events' = Append(events, Event("dice_rolled", task, GetValidMoves(game, task.pid)))
           /\ tasks' = tasks \ {task}
           /\ last' = Call("report", task.pid, OK)
    /\ UNCHANGED <<now, applied>>

\* Handler.MovePiece up to the return of Game.MovePiece.
HandleMovePiece ==
    /\ ConcCounted
    /\ CanBegin
    /\ \E pid \in Humans, pieceID \in 0..(PiecesPerPlayer - 1) :
           LET r == MovePiece(game, pid, pieceID, now)
           IN /\ game' = r.g
              /\ last' = [Call("move", pid, r.err) EXCEPT
                             !.piece = IF r.err = OK THEN pieceID ELSE NoPiece]
              /\ applied' = IF r.err = OK THEN applied + 1 ELSE applied
              /\ tasks' = IF r.err = OK
                          THEN tasks \cup {Task("move", pid, "applied", applied + 1,
                                                <<r.g>>, <<>>)}
                          ELSE tasks
    /\ UNCHANGED <<now, events>>

\* Handler.SkipTurn up to its test of HasValidMoves.
CheckSkipTurn ==
    /\ ConcCounted
    /\ CanBegin
    /\ \E pid \in Humans :
           IF HasValidMoves(game, pid)
           THEN /\ last' = Call("skipCheck", pid, ErrHasValidMoves)
                /\ UNCHANGED tasks
           ELSE /\ last' = Call("skipCheck", pid, OK)
                /\ tasks' = tasks \cup {Task("skip", pid, "checked", 0, <<>>, <<>>)}
    /\ UNCHANGED <<game, now, events, applied>>

\* Handler.SkipTurn: the call of Game.SkipTurn.
HandleSkipTurn ==
    /\ ConcCounted
    /\ \E task \in tasks :
           /\ task.kind = "skip" /\ task.phase = "checked"
           /\ LET r == SkipTurn(game, task.pid, now)
              IN /\ game' = r.g
                 /\ last' = Call("skip", task.pid, r.err)
                 /\ applied' = IF r.err = OK THEN applied + 1 ELSE applied
                 /\ tasks' = (tasks \ {task}) \cup
                        (IF r.err = OK
                         THEN {Task("skip", task.pid, "applied", applied + 1, <<r.g>>, <<>>)}
                         ELSE {})
    /\ UNCHANGED <<now, events>>

\* startTurnTimeoutChecker: the test of IsTurnTimedOut in one pass of the loop.
CheckTurnTimeout ==
    /\ ConcCounted
    /\ CanBegin
    /\ \A task \in tasks : task.kind # "timeout"
    /\ IsTurnTimedOut(game, now)
    /\ tasks' = tasks \cup {Task("timeout", "", "checked", 0, <<>>, <<>>)}
    /\ last' = Call("timeoutCheck", "", OK)
    /\ UNCHANGED <<game, now, events, applied>>

\* startTurnTimeoutChecker: the call of ForceSkipTurn; the pass ends without an
\* event when it returns no id.
HandleTurnTimeout ==
    /\ ConcCounted
    /\ \E task \in tasks :
           /\ task.kind = "timeout" /\ task.phase = "checked"
           /\ LET r == ForceSkipTurn(game, now)
              IN /\ game' = r.g
                 /\ last' = Call("forceSkip", r.skipped, OK)
                 /\ applied' = IF r.skipped # "" THEN applied + 1 ELSE applied
                 /\ tasks' = (tasks \ {task}) \cup
                        (IF r.skipped # ""
                         THEN {Task("timeout", r.skipped, "applied", applied + 1,
                                    <<r.g>>, <<>>)}
                         ELSE {})
    /\ UNCHANGED <<now, events>>

\* The call of GetGameState that fills the "game" field of the event.
TakeSnapshot ==
    /\ ConcCounted
    /\ \E task \in tasks :
           /\ task.kind # "roll" /\ task.phase = "applied"
           /\ tasks' = (tasks \ {task}) \cup
                  {[task EXCEPT !.phase = "snapped", !.snap = <<GetGameState(game)>>]}
           /\ last' = Call("snapshot", task.pid, OK)
    /\ UNCHANGED <<game, now, events, applied>>

\* Hub.BroadcastToGame: json.Marshal of the event and the send on the hub's
\* channel; the move handler sends game_ended as well when its snapshot shows the
\* game ended.  The snapshot's "players" is the session's own map of players, read
\* by json.Marshal without the session's lock: what is sent holds the players as
\* they were at the snapshot or as they are now.
HandOver ==
    /\ ConcCounted
    /\ \E task \in tasks :
           /\ task.phase = "snapped"
           /\ \E players \in {task.snap[1].players, game.Players} :
                  events' = events \o
                      <<[Event(EventType(task.kind), task, <<>>) EXCEPT
                            !.sent = <<[task.snap[1] EXCEPT !.players = players]>>]>> \o
                      (IF task.kind = "move" /\ task.snap[1].state = "ended"
                       THEN <<Event("game_ended", task, <<>>)>>
                       ELSE <<>>)
           /\ tasks' = tasks \ {task}
           /\ last' = Call("broadcast", task.pid, OK)
    /\ UNCHANGED <<game, now, applied>>

ConcTick ==
    /\ ConcCounted
    /\ \E d \in TickSteps : now' = now + d
    /\ last' = Call("tick", "", OK)
    /\ UNCHANGED <<game, tasks, events, applied>>

ConcNext ==
    \/ HandleRollDice
    \/ ReportRoll
    \/ HandleMovePiece
    \/ CheckSkipTurn
    \/ HandleSkipTurn
    \/ CheckTurnTimeout
    \/ HandleTurnTimeout
    \/ TakeSnapshot
    \/ HandOver
    \/ ConcTick

ConcSpec == ConcInit /\ [][ConcNext]_vars

----------------------------------------------------------------------------
\* A game in play under the timeout driver, with no bound on the length of a
\* run: the players roll and move as they please, the clock and the driver's
\* ticker go on.

MaxLiveMoves == 2    \* moves recorded in one behaviour
MaxLiveTurns == 2    \* turn limits the clock can run through in one behaviour

MaxLiveClock == StartClock + MaxLiveTurns * (DefaultTurnTimeout + 1)

\* The host can capture with a 2 and so earn an extra turn.
LiveSessions ==
    { InProgress(4, <<onTrack(0, 3, 4), NewPiece(1), NewPiece(2), NewPiece(3)>>,
                    <<onTrack(0, 5, 4), NewPiece(1), NewPiece(2), NewPiece(3)>>,
                 Host, 0) }

LiveInit ==
    /\ game \in LiveSessions
    /\ now = StartClock
    /\ steps = 0
    /\ botSeq = 0
    /\ last = Call("create", Host, OK)
    /\ Quiet

LiveRollDice ==
    /\ Len(game.MoveHistory) < MaxLiveMoves
    /\ \E roll \in Rolls :
           LET r == RollDice(game, game.CurrentTurn, roll, now)
           IN /\ game' = r.g
              /\ last' = [Call("roll", game.CurrentTurn, r.err) EXCEPT !.roll = r.roll]
    /\ UNCHANGED <<now, steps, botSeq, hvars>>

LiveMovePiece ==
    /\ Len(game.MoveHistory) < MaxLiveMoves
    /\ \E pieceID \in 0..(PiecesPerPlayer - 1) :
           LET r == MovePiece(game, game.CurrentTurn, pieceID, now)
           IN /\ game' = r.g
              /\ last' = [Call("move", game.CurrentTurn, r.err) EXCEPT
                             !.piece = IF r.err = OK THEN pieceID ELSE NoPiece]
    /\ UNCHANGED <<now, steps, botSeq, hvars>>

\* The clock moves on for as long as the turn has not timed out.
LiveTick ==
    /\ now < MaxLiveClock
    /\ ~IsTurnTimedOut(game, now)
    /\ \E d \in TickSteps : now' = now + d
    /\ last' = Call("tick", "", OK)
    /\ UNCHANGED <<game, steps, botSeq, hvars>>

\* One pass of the timeout driver over a session whose turn has timed out.
LiveForceSkipTurn ==
    /\ IsTurnTimedOut(game, now)
    /\ LET r == ForceSkipTurn(game, now)
       IN /\ game' = r.g
          /\ last' = Call("forceSkip", r.skipped, OK)
    /\ UNCHANGED <<now, steps, botSeq, hvars>>

LiveNext ==
    \/ LiveRollDice
    \/ LiveMovePiece
    \/ LiveTick
    \/ LiveForceSkipTurn

\* The clock and the driver's ticker never stop.
LiveSpec ==
    /\ LiveInit
    /\ [][LiveNext]_vars
    /\ WF_vars(LiveTick)
    /\ WF_vars(LiveForceSkipTurn)

----------------------------------------------------------------------------
\* One piece followed along the board: the host's first piece, for each board
\* and each colour the board hands out, placed roll after roll as MovePiece
\* places it and sent home as a capture sends it.

TrackSessions ==
    { [InProgress(m, NewPieces, NewPieces, Host, 0) EXCEPT !.Players[Host].Color = c] :
        m \in {4}, c \in DOMAIN PlayerStartPositions }
    \cup
    { [InProgress(m, NewPieces, NewPieces, Host, 0) EXCEPT !.Players[Host].Color = c] :
        m \in {6}, c \in DOMAIN HexPlayerStartPositions }

TrackInit ==
    /\ game \in TrackSessions
    /\ now = StartClock
    /\ steps = 0
    /\ botSeq = 0
    /\ last = Call("create", Host, OK)
    /\ Quiet

\* The placement part of MovePiece for the followed piece and a roll.
TrackPlacePiece ==
    /\ \E roll \in Rolls :
           LET g == [game EXCEPT !.LastDiceRoll = roll, !.HasRolled = TRUE]
               m == placePiece(g, Host, g.Players[Host], g.Players[Host].Pieces[1], 0)
           IN /\ ~m.rejected
              /\ game' = [g EXCEPT !.Players =
                             [m.players EXCEPT ![Host].Pieces[1] = m.piece]]
              /\ travelled' = IF game.Players[Host].Pieces[1].IsHome THEN 0
                            ELSE travelled + roll
              /\ last' = [Call("move", Host, OK) EXCEPT !.piece = 0, !.roll = roll]
    /\ UNCHANGED <<now, steps, botSeq, tasks, events, applied, removed, hub, serial>>

\* The followed piece is captured where a capture is possible.
TrackSendHome ==
    /\ isCapturedAt(game.Players[Host].Pieces[1], game.Players[Host].Pieces[1].Position)
    /\ ~IsSafeZone(game.Players[Host].Pieces[1].Position, game.MaxPlayers)
    /\ game' = [game EXCEPT !.Players[Host].Pieces[1] = sendHome(@)]
    /\ travelled' = 0
    /\ last' = Call("capture", "p1", OK)
    /\ UNCHANGED <<now, steps, botSeq, tasks, events, applied, removed, hub, serial>>

TrackNext ==
    \/ TrackPlacePiece
    \/ TrackSendHome

TrackSpec == TrackInit /\ [][TrackNext]_vars

----------------------------------------------------------------------------
\* The hub: one task that takes register, unregister and broadcast requests
\* one at a time, and for every subscriber a reader task and a writer task.

MaxHubSteps == 7      \* steps of the hub and the subscribers' tasks in one behaviour
SendBufferSize == 2   \* messages a subscriber's buffer holds (256 in the program)

BroadcastMessage(room, n) == [GameCode |-> room, n |-> n]
Pong == [GameCode |-> "", n |-> 0]

Subscribers(h, room) == IF room \in DOMAIN h.games THEN h.games[room] ELSE {}

\* case client := <-h.register
registerClient(h, c) ==
    [h EXCEPT !.games =
        [r \in DOMAIN h.games \cup {gameCode[c]} |->
            IF r = gameCode[c] THEN Subscribers(h, r) \cup {c} ELSE h.games[r]]]

\* close(client.send): closing a buffer that is closed already is a panic.
closeSend(h, S) ==
    [h EXCEPT !.closes = [c \in Clients |-> IF c \in S THEN @[c] + 1 ELSE @[c]],
              !.fault = IF \E c \in S : h.closes[c] > 0
                        THEN "close of closed channel" ELSE @]

\* Variant: the hub closes the buffer of every client it is asked to unregister.
unregisterClientUnchecked(h, c) ==
    LET rest == Subscribers(h, gameCode[c]) \ {c}
        closed == closeSend(h, {c})
    IN [closed EXCEPT !.games =
           IF rest = {} THEN [r \in DOMAIN h.games \ {gameCode[c]} |-> h.games[r]]
           ELSE [r \in DOMAIN h.games |-> IF r = gameCode[c] THEN rest ELSE h.games[r]]]

\* case client := <-h.unregister
unregisterClient(h, c) ==
    IF c \notin Subscribers(h, gameCode[c]) THEN h
    ELSE LET rest == h.games[gameCode[c]] \ {c}
             closed == closeSend(h, {c})
         IN [closed EXCEPT !.games =
                IF rest = {} THEN [r \in DOMAIN h.games \ {gameCode[c]} |-> h.games[r]]
                ELSE [h.games EXCEPT ![gameCode[c]] = rest]]

\* Variant: the message is handed to the subscribers of every room.
broadcastToEveryRoom(h, room, msg) ==
    [h EXCEPT !.send = [c \in Clients |->
                           IF c \in UNION {h.games[r] : r \in DOMAIN h.games}
                           THEN Append(@[c], msg) ELSE @[c]],
              !.queued = Append(@, msg)]

\* case message := <-h.broadcast: a subscriber whose buffer is full is closed
\* and deleted from the room; sending to a closed buffer is a panic.
broadcast(h, room, msg) ==
    LET full == {c \in Subscribers(h, room) : Len(h.send[c]) >= SendBufferSize}
        sent == [h EXCEPT !.send = [c \in Clients |->
                                       IF c \in Subscribers(h, room) \ full
                                       THEN Append(@[c], msg) ELSE @[c]],
                          !.queued = Append(@, msg)]
    IN IF \E c \in Subscribers(h, room) : h.closes[c] > 0
       THEN [h EXCEPT !.fault = "send on closed channel"]
       ELSE IF full = {} THEN sent
       ELSE [closeSend(sent, full) EXCEPT !.games[room] = @ \ full]

\* c1 and c2 have connected to room A and their tasks run; c3 has not connected.
HubInit ==
    /\ game \in {CreateGame(Host, 4, StartClock)}
    /\ now = StartClock
    /\ steps = 0
    /\ botSeq = 0
    /\ last = Call("create", Host, OK)
    /\ tasks = {} /\ events = <<>> /\ applied = 0 /\ removed = FALSE /\ travelled = 0
    /\ serial = {}
    /\ hub = [registerClient(registerClient(NewHub, "c1"), "c2") EXCEPT
                 !.reader = [c \in Clients |-> IF c = "c3" THEN "none" ELSE "reading"],
                 !.writer = [c \in Clients |-> IF c = "c3" THEN "none" ELSE "running"]]

HubCounted ==
    /\ hub.fault = ""
    /\ steps < MaxHubSteps
    /\ steps' = steps + 1
    /\ UNCHANGED <<game, now, botSeq, tasks, events, applied, removed, travelled, serial>>

\* HandleWebSocket hands the new client to the hub (the hub takes the write lock).
HubRegister ==
    /\ HubCounted
    /\ hub.listing = 0
    /\ \E c \in Clients :
          /\ hub.reader[c] = "none"
          /\ hub' = [registerClient(hub, c) EXCEPT !.reader[c] = "starting"]
          /\ last' = Call("register", c, OK)

\* go client.writePump(); go client.readPump(wsh)
StartPumps ==
    /\ HubCounted
    /\ \E c \in Clients :
          /\ hub.reader[c] = "starting"
          /\ hub' = [hub EXCEPT !.reader[c] = "reading", !.writer[c] = "running"]
          /\ last' = Call("start", c, OK)

\* GetConnectedPlayers takes the read lock and walks the room's subscribers.
BeginList ==
    /\ HubCounted
    /\ hub.listing = 0
    /\ hub' = [hub EXCEPT !.listing = 1]
    /\ last' = Call("list", "", OK)

EndList ==
    /\ HubCounted
    /\ hub.listing = 1
    /\ hub' = [hub EXCEPT !.listing = 0]
    /\ last' = Call("listed", "", OK)

\* The hub takes a message for a room and hands it to the room's subscribers
\* under the read lock.  Deleting a subscriber from the room while another task
\* walks the same map under its own read lock is a data race: the run goes on
\* or the runtime stops the program.
HubBroadcast ==
    /\ HubCounted
    /\ \E room \in Rooms :
          LET h == broadcast(hub, room, BroadcastMessage(room, Len(hub.queued) + 1))
          IN /\ \/ hub' = h
                \/ /\ hub.listing = 1
                   /\ h.games # hub.games
                   /\ hub' = [h EXCEPT !.fault = "concurrent map iteration and map write"]
             /\ last' = Call("broadcast", room, OK)

\* The reader's loop ends (socket closed, failed read, missed pong) and its
\* deferred function hands the client to the hub's unregister channel.
ReaderStops ==
    /\ HubCounted
    /\ \E c \in Clients :
          /\ hub.reader[c] = "reading"
          /\ hub' = [hub EXCEPT !.reader[c] = "unregistering"]
          /\ last' = Call("readerStops", c, OK)

\* The hub takes the unregister request (write lock).
HubUnregister ==
    /\ HubCounted
    /\ hub.listing = 0
    /\ \E c \in Clients :
          /\ hub.reader[c] = "unregistering"
          /\ hub' = [unregisterClient(hub, c) EXCEPT !.reader[c] = "done"]
          /\ last' = Call("unregister", c, OK)

\* The writer takes the first message of the buffer and with it all that are
\* queued behind it; at a closed and empty buffer it returns.
WritePump ==
    /\ HubCounted
    /\ \E c \in Clients :
          /\ hub.writer[c] = "running"
          /\ \/ /\ hub.send[c] # <<>>
                /\ hub' = [hub EXCEPT !.written[c] = @ \o hub.send[c], !.send[c] = <<>>]
             \/ /\ hub.send[c] = <<>> /\ hub.closes[c] > 0
                /\ hub' = [hub EXCEPT !.writer[c] = "exited"]
          /\ last' = Call("write", c, OK)

\* A write to the socket fails and the writer returns, closing the connection.
WriterStops ==
    /\ HubCounted
    /\ \E c \in Clients :
          /\ hub.writer[c] = "running"
          /\ hub' = [hub EXCEPT !.writer[c] = "exited"]
          /\ last' = Call("writerStops", c, OK)

\* The reader reads a ping frame from the open connection.
ReadPing ==
    /\ HubCounted
    /\ \E c \in Clients :
          /\ hub.reader[c] = "reading" /\ hub.writer[c] = "running"
          /\ hub' = [hub EXCEPT !.reader[c] = "ponging"]
          /\ last' = Call("ping", c, OK)

\* c.send <- response: waits while the buffer is full; a panic on a closed buffer.
SendPong ==
    /\ HubCounted
    /\ \E c \in Clients :
          /\ hub.reader[c] = "ponging"
          /\ \/ /\ hub.closes[c] > 0
                /\ hub' = [hub EXCEPT !.fault = "send on closed channel"]
             \/ /\ hub.closes[c] = 0 /\ Len(hub.send[c]) < SendBufferSize
                /\ hub' = [hub EXCEPT !.send[c] = Append(@, Pong), !.reader[c] = "reading"]
          /\ last' = Call("pong", c, OK)

HubNext ==
    \/ HubRegister
    \/ StartPumps
    \/ BeginList
    \/ EndList
    \/ HubBroadcast
    \/ ReaderStops
    \/ HubUnregister
    \/ WritePump
    \/ WriterStops
    \/ ReadPing
    \/ SendPong

HubSpec == HubInit /\ [][HubNext]_vars

----------------------------------------------------------------------------
\* The locks.  Every task is the list of lock operations and hub sends its code
\* makes, in order; "gm" is the registry's lock, "g" a session's lock.

MaxLockTasks == 2    \* tasks under way at the same time

Write(mu) == <<[act |-> "Lock", mu |-> mu], [act |-> "Unlock", mu |-> mu]>>
Read(mu) == <<[act |-> "RLock", mu |-> mu], [act |-> "RUnlock", mu |-> mu]>>
Send == <<[act |-> "send", mu |-> "hub"]>>

TaskKinds == {"cleanup", "stats", "join", "move", "timeout", "bot"}

\* Variant: the join takes the session's lock first and looks the session up in
\* the registry while it holds it.
ProgramJoinLooksUpInside(kind) ==
    IF kind = "join"
    THEN <<[act |-> "Lock", mu |-> "g"]>> \o Read("gm") \o
         <<[act |-> "Unlock", mu |-> "g"]>> \o Read("g") \o Send
    ELSE <<[act |-> "Lock", mu |-> "gm"]>> \o Read("g") \o
         <<[act |-> "Unlock", mu |-> "gm"]>>

Program(kind) ==
    CASE kind = "cleanup" ->
           \* CleanupAbandonedGames
           <<[act |-> "Lock", mu |-> "gm"]>> \o Read("g") \o
           <<[act |-> "Unlock", mu |-> "gm"]>>
      [] kind = "stats" ->
           \* GetGameStats
           <<[act |-> "RLock", mu |-> "gm"]>> \o Read("g") \o
           <<[act |-> "RUnlock", mu |-> "gm"]>>
      [] kind = "join" ->
           \* Handler.JoinGame: GetGame, JoinGame, GetGameState, broadcast
           Read("gm") \o Write("g") \o Read("g") \o Send
      [] kind = "move" ->
           \* Handler.MovePiece: GetGame, MovePiece, GetGameState, broadcast
           Read("gm") \o Write("g") \o Read("g") \o Send
      [] kind = "timeout" ->
           \* startTurnTimeoutChecker: GetAllGames, IsTurnTimedOut, ForceSkipTurn,
           \* GetGameState, broadcast
           Read("gm") \o Read("g") \o Write("g") \o Read("g") \o Send
      [] OTHER ->
           \* startBotTurnHandler / handleBotTurn: GetAllGames, IsCurrentPlayerBot,
           \* GetGameState, RollDice, GetValidMoves, broadcast, GetBotMove,
           \* MovePiece, GetGameState, broadcast
           Read("gm") \o Read("g") \o Read("g") \o Write("g") \o Read("g") \o Send \o
           Read("g") \o Write("g") \o Read("g") \o Send

LockTask(id, kind, pc) == [id |-> id, kind |-> kind, pc |-> pc]

Through(t) == t.pc > Len(Program(t.kind))

NextOp(t) == Program(t.kind)[t.pc]

\* The locks a task holds: those it took and has not released yet.
Holds(t, mu, act) ==
    \E i \in 1..(t.pc - 1) :
        /\ Program(t.kind)[i] = [act |-> act, mu |-> mu]
        /\ \A j \in (i + 1)..(t.pc - 1) :
              ~(Program(t.kind)[j].mu = mu /\ Program(t.kind)[j].act \in {"Unlock", "RUnlock"})

HoldsAny(t, mu) == Holds(t, mu, "Lock") \/ Holds(t, mu, "RLock")

\* sync.RWMutex: Lock waits for every holder, RLock for a writer.
CanStep(t) ==
    /\ ~Through(t)
    /\ NextOp(t).act = "Lock" => \A u \in tasks : ~HoldsAny(u, NextOp(t).mu)
    /\ NextOp(t).act = "RLock" => \A u \in tasks : ~Holds(u, NextOp(t).mu, "Lock")

LockInit ==
    /\ game \in {CreateGame(Host, 4, StartClock)}
    /\ now = StartClock
    /\ steps = 0
    /\ botSeq = 0
    /\ last = Call("create", Host, OK)
    /\ Quiet

\* A request arrives or a ticker fires.
LockBegin ==
    /\ \E id \in 1..MaxLockTasks, kind \in TaskKinds :
          /\ \A t \in tasks : t.id # id
          /\ tasks' = tasks \cup {LockTask(id, kind, 1)}
          /\ last' = Call("begin", kind, OK)
    /\ UNCHANGED <<game, now, steps, botSeq, events, applied, removed, travelled, hub, serial>>

\* A task makes its next lock operation or send; a task that is through goes.
LockStep ==
    /\ \E t \in tasks :
          \/ /\ CanStep(t)
             /\ tasks' = (tasks \ {t}) \cup {LockTask(t.id, t.kind, t.pc + 1)}
             /\ last' = Call(NextOp(t).act, t.kind, OK)
          \/ /\ Through(t)
             /\ tasks' = tasks \ {t}
             /\ last' = Call("end", t.kind, OK)
    /\ UNCHANGED <<game, now, steps, botSeq, events, applied, removed, travelled, hub, serial>>

LockNext ==
    \/ LockBegin
    \/ LockStep

LockSpec == LockInit /\ [][LockNext]_vars

----------------------------------------------------------------------------
\* The bot driver (startBotTurnHandler, handleBotTurn) next to the timeout
\* driver, pause and resume and the players' requests.  One pass of the driver
\* is one record in tasks; each of its calls on the session is one step.

MaxBotSteps == 8    \* steps of the drivers, the players and the clock

IsCurrentPlayerBot(g) ==
    IF g.State # "playing" THEN FALSE
    ELSE IF g.CurrentTurn \notin DOMAIN g.Players THEN FALSE
    ELSE g.Players[g.CurrentTurn].IsBot

\* Every result rand.Intn allows.
GetBotMove(g) ==
    IF g.State # "playing" \/ ~g.HasRolled
    THEN {[pieceID |-> -1, hasMove |-> FALSE]}
    ELSE IF g.CurrentTurn \notin DOMAIN g.Players \/ ~g.Players[g.CurrentTurn].IsBot
    THEN {[pieceID |-> -1, hasMove |-> FALSE]}
    ELSE LET validMoves == getValidMovesInternal(g, g.CurrentTurn)
         IN IF Len(validMoves) = 0
            THEN {[pieceID |-> -1, hasMove |-> FALSE]}
            ELSE {[pieceID |-> validMoves[k], hasMove |-> TRUE] : k \in 1..Len(validMoves)}

\* A pass of the driver: where it is (phase), the player that was in turn when
\* IsCurrentPlayerBot answered (observed), the locals currentTurn and pieceID,
\* and the event it is about to broadcast with the result of the call behind it.
Pass(phase, observed, currentTurn, pieceID, type, err) ==
    [phase |-> phase, observed |-> observed, currentTurn |-> currentTurn,
     pieceID |-> pieceID, type |-> type, err |-> err]

BotEvent(type, pid, err, g) ==
    [type |-> type, pid |-> pid, err |-> err, game |-> GetGameState(g)]

BotSessions ==
    { InProgressWithBot(<<onTrack(0, 3, 4), NewPiece(1), NewPiece(2), NewPiece(3)>>,
                        <<onTrack(0, 20, 4), NewPiece(1), NewPiece(2), NewPiece(3)>>,
                        <<onTrack(0, 5, 4), NewPiece(1), NewPiece(2), NewPiece(3)>>,
                        turn, 0) : turn \in {Host, BotID(1)} }

BotInit ==
    /\ game \in BotSessions
    /\ now = StartClock
    /\ steps = 0
    /\ botSeq = 1
    /\ last = Call("create", Host, OK)
    /\ Quiet

BotCounted ==
    /\ steps < MaxBotSteps
    /\ steps' = steps + 1
    /\ UNCHANGED <<botSeq, applied, removed, travelled, hub, serial>>

\* The ticker fires and IsCurrentPlayerBot answers true.
BotObserve ==
    /\ BotCounted
    /\ tasks = {}
    /\ IsCurrentPlayerBot(game)
    /\ tasks' = {Pass("read", game.CurrentTurn, "", -1, "", OK)}
    /\ last' = Call("IsCurrentPlayerBot", game.CurrentTurn, OK)
    /\ UNCHANGED <<game, now, events>>

\* handleBotTurn reads current_turn and has_rolled from GetGameState.
BotRead ==
    /\ BotCounted
    /\ \E p \in tasks :
          /\ p.phase = "read"
          /\ tasks' = {Pass(IF GetGameState(game).has_rolled THEN "choose" ELSE "roll",
                            p.observed, GetGameState(game).current_turn, -1, "", OK)}
          /\ last' = Call("GetGameState", GetGameState(game).current_turn, OK)
    /\ UNCHANGED <<game, now, events>>

\* RollDice(currentTurn); a rejected roll ends the pass, three sixes after the
\* broadcast of dice_rolled.
BotRoll ==
    /\ BotCounted
    /\ \E p \in tasks, roll \in Rolls :
          /\ p.phase = "roll"
          /\ LET r == RollDice(game, p.currentTurn, roll, now)
             IN /\ game' = r.g
                /\ last' = [Call("bot_roll", p.currentTurn, r.err) EXCEPT !.roll = r.roll]
                /\ IF r.err = OK
                   THEN /\ tasks' = {Pass("report", p.observed, p.currentTurn, -1,
                                          "dice_rolled", r.err)}
                        /\ events' = events
                   ELSE /\ tasks' = {}
                        /\ events' = IF r.err = ErrThreeSixes
                                     THEN Append(events, BotEvent("dice_rolled", p.currentTurn,
                                                                  r.err, r.g))
                                     ELSE events
    /\ UNCHANGED now

\* GetValidMoves and the broadcast of dice_rolled; the pass then sleeps.
BotReport ==
    /\ BotCounted
    /\ \E p \in tasks :
          /\ p.phase = "report"
          /\ events' = Append(events, BotEvent(p.type, p.currentTurn, p.err, game))
          /\ tasks' = {Pass("choose", p.observed, p.currentTurn, -1, "", OK)}
          /\ last' = Call("GetValidMoves", p.currentTurn, OK)
    /\ UNCHANGED <<game, now>>

\* GetBotMove.
BotChoose ==
    /\ BotCounted
    /\ \E p \in tasks, m \in GetBotMove(game) :
          /\ p.phase = "choose"
          /\ tasks' = {Pass(IF m.hasMove THEN "move" ELSE "skip",
                            p.observed, p.currentTurn, m.pieceID, "", OK)}
          /\ last' = [Call("GetBotMove", p.currentTurn, OK) EXCEPT !.piece = m.pieceID]
    /\ UNCHANGED <<game, now, events>>

\* MovePiece(currentTurn, pieceID); a rejected move leads to the skip.
BotMove ==
    /\ BotCounted
    /\ \E p \in tasks :
          /\ p.phase = "move"
          /\ LET r == MovePiece(game, p.currentTurn, p.pieceID, now)
             IN /\ game' = r.g
                /\ last' = [Call("bot_move", p.currentTurn, r.err) EXCEPT !.piece = p.pieceID]
                /\ tasks' = {IF r.err = OK
                             THEN Pass("announce", p.observed, p.currentTurn, p.pieceID,
                                       "piece_moved", r.err)
                             ELSE Pass("skip", p.observed, p.currentTurn, p.pieceID, "", OK)}
    /\ UNCHANGED <<now, events>>

\* SkipTurn(currentTurn); the driver does not look at what it returns.
BotSkip ==
    /\ BotCounted
    /\ \E p \in tasks :
          /\ p.phase = "skip"
          /\ LET r == SkipTurn(game, p.currentTurn, now)
             IN /\ game' = r.g
                /\ last' = Call("bot_skip", p.currentTurn, r.err)
                /\ tasks' = {Pass("announce", p.observed, p.currentTurn, p.pieceID,
                                  "turn_skipped", r.err)}
    /\ UNCHANGED <<now, events>>

\* GetGameState and the broadcast of piece_moved or turn_skipped.
BotAnnounce ==
    /\ BotCounted
    /\ \E p \in tasks :
          /\ p.phase = "announce"
          /\ events' = Append(events, BotEvent(p.type, p.currentTurn, p.err, game))
          /\ tasks' = {}
          /\ last' = Call("BroadcastToGame", p.currentTurn, OK)
    /\ UNCHANGED <<game, now>>

\* startTurnTimeoutChecker: IsTurnTimedOut, then ForceSkipTurn.
BotTurnTimeout ==
    /\ BotCounted
    /\ IsTurnTimedOut(game, now)
    /\ LET r == ForceSkipTurn(game, now)
       IN /\ game' = r.g
          /\ last' = Call("timeout", r.skipped, OK)
    /\ UNCHANGED <<now, tasks, events>>

BotPauseGame ==
    /\ BotCounted
    /\ LET r == PauseGame(game, Host, now)
       IN /\ r.err = OK
          /\ game' = r.g
          /\ last' = Call("pause", Host, r.err)
    /\ UNCHANGED <<now, tasks, events>>

BotResumeGame ==
    /\ BotCounted
    /\ LET r == ResumeGame(game, Host, now)
       IN /\ r.err = OK
          /\ game' = r.g
          /\ last' = Call("resume", Host, r.err)
    /\ UNCHANGED <<now, tasks, events>>

\* A player's roll and move requests that are accepted.
BotPlayerRollDice ==
    /\ BotCounted
    /\ \E pid \in Humans, roll \in Rolls :
          LET r == RollDice(game, pid, roll, now)
          IN /\ r.err \in {OK, ErrThreeSixes}
             /\ game' = r.g
             /\ last' = [Call("roll", pid, r.err) EXCEPT !.roll = r.roll]
    /\ UNCHANGED <<now, tasks, events>>

BotPlayerMovePiece ==
    /\ BotCounted
    /\ \E pid \in Humans, pieceID \in 0..(PiecesPerPlayer - 1) :
          LET r == MovePiece(game, pid, pieceID, now)
          IN /\ r.err = OK
             /\ game' = r.g
             /\ last' = [Call("move", pid, r.err) EXCEPT !.piece = pieceID]
    /\ UNCHANGED <<now, tasks, events>>

BotTick ==
    /\ BotCounted
    /\ \E d \in TickSteps : now' = now + d
    /\ last' = Call("tick", "", OK)
    /\ UNCHANGED <<game, tasks, events>>

BotNext ==
    \/ BotObserve
    \/ BotRead
    \/ BotRoll
    \/ BotReport
    \/ BotChoose
    \/ BotMove
    \/ BotSkip
    \/ BotAnnounce
    \/ BotTurnTimeout
    \/ BotPauseGame
    \/ BotResumeGame
    \/ BotPlayerRollDice
    \/ BotPlayerMovePiece
    \/ BotTick

BotSpec == BotInit /\ [][BotNext]_vars

----------------------------------------------------------------------------
\* Properties.  In an action formula game is the session before the call that
\* last' describes and game' the session after it.

Ids(seq) == {seq[k] : k \in 1..Len(seq)}

Succeeded(op) == last'.op = op /\ last'.err = OK

LastMove(g) == g.MoveHistory[Len(g.MoveHistory)]

LifecycleEdge ==
    \/ /\ game.State = "waiting" /\ game'.State = "playing"
       /\ Succeeded("start")
    \/ /\ game.State = "playing" /\ game'.State = "paused"
       /\ Succeeded("pause")
    \/ /\ game.State = "paused" /\ game'.State = "playing"
       /\ Succeeded("resume")
    \/ /\ game.State = "playing" /\ game'.State = "ended"
       /\ Succeeded("move")
       /\ ~game.Players[last'.pid].Pieces[last'.piece + 1].IsFinished
       /\ \A k \in 1..PiecesPerPlayer : game'.Players[last'.pid].Pieces[k].IsFinished
    \/ /\ game.State = "ended" /\ game'.State = "waiting"
       /\ Succeeded("rematch")

\* C1: the lifecycle state changes only along waiting -> playing (a successful
\* start), playing -> paused (pause), paused -> playing (resume), playing -> ended
\* (a move that finishes the mover's fourth piece) and ended -> waiting (a
\* successful rematch); no other operation changes it.
C1_LifecycleEdges == [][game'.State # game.State => LifecycleEdge]_vars

\* The whole cycle has been walked: a rematch put an ended game back to waiting.
C1_Witness ==
    /\ last.op = "rematch" /\ last.err = OK
    /\ game.State = "waiting"

TurnCall ==
    last'.op \in {"roll", "move", "skip"}

\* C2: rollDice, movePiece and skipTurn succeed only when the session is playing,
\* the caller is currentTurn and hasRolled is false (roll) or true (move, skip); in
\* paused state they return GamePaused, in play a call by another player returns
\* NotYourTurn, a second roll in the turn AlreadyRolled and a move or skip before
\* the roll MustRollFirst.
C2_TurnPreconditions ==
    [][TurnCall =>
        /\ last'.err \in {OK, ErrThreeSixes} =>
              /\ game.State = "playing"
              /\ last'.pid = game.CurrentTurn
              /\ game.HasRolled <=> last'.op \in {"move", "skip"}
        /\ game.State = "paused" => last'.err = ErrGamePaused
        /\ game.State = "playing" /\ last'.pid # game.CurrentTurn =>
              last'.err = ErrNotPlayerTurn
        /\ game.State = "playing" /\ last'.pid = game.CurrentTurn =>
              /\ last'.op = "roll" /\ game.HasRolled => last'.err = ErrAlreadyRolled
              /\ last'.op # "roll" /\ ~game.HasRolled => last'.err = ErrMustRollFirst]_vars

\* The current player rolled a second time in the turn and was refused.
C2_Witness ==
    /\ last.op = "roll" /\ last.err = ErrAlreadyRolled
    /\ last.pid = game.CurrentTurn
    /\ game.HasRolled

\* C3: an operation that returns an error other than ThreeSixes leaves every field
\* of the session as it was; a rejected movePiece leaves hasRolled true.
C3_RejectionChangesNothing ==
    [][last'.err \notin {OK, ErrThreeSixes} =>
        /\ game' = game
        /\ last'.op = "move" /\ last'.err = ErrInvalidMove => game'.HasRolled]_vars

\* A move was rejected as illegal and the player may still move or skip.
C3_Witness ==
    /\ last.op = "move" /\ last.err = ErrInvalidMove
    /\ game.State = "playing"
    /\ game.HasRolled
    /\ game.CurrentTurn = last.pid

ReachedThree == last'.roll = 6 /\ game.ConsecutiveSixes + 1 = 3

\* C4: after a successful rollDice hasRolled is true and currentTurn unchanged
\* unless the roll was the third consecutive six; then the call returns the roll
\* with ThreeSixes, the turn goes to the next player in order, hasRolled is false
\* and consecutiveSixes is 0; ThreeSixes is returned iff the counter reached 3.
C4_RollOutcome ==
    [][last'.op = "roll" /\ last'.err \in {OK, ErrThreeSixes} =>
        /\ last'.err = ErrThreeSixes <=> ReachedThree
        /\ last'.roll = game'.LastDiceRoll
        /\ ~ReachedThree =>
              /\ game'.HasRolled
              /\ game'.CurrentTurn = game.CurrentTurn
        /\ ReachedThree =>
              /\ game'.Players[game'.CurrentTurn].Order =
                    (game.Players[game.CurrentTurn].Order + 1) % NumPlayers(game)
              /\ ~game'.HasRolled
              /\ game'.ConsecutiveSixes = 0]_vars

\* A third consecutive six forfeited the turn.
C4_Witness ==
    /\ last.op = "roll" /\ last.err = ErrThreeSixes /\ last.roll = 6
    /\ game.CurrentTurn # last.pid
    /\ ~game.HasRolled
    /\ game.ConsecutiveSixes = 0

\* C5: whenever the turn passes to a different player by any path (advance, skip,
\* forceSkip, three-sixes forfeit, or the current player leaving during play)
\* consecutiveSixes is 0 at the start of the new player's turn.
C5_SixesResetWhenTurnPasses ==
    [][game'.State = "playing" /\ game'.CurrentTurn # game.CurrentTurn =>
        game'.ConsecutiveSixes = 0]_vars

CapturedNow ==
    \E p \in DOMAIN game.Players \ {last'.pid} : \E k \in 1..PiecesPerPlayer :
        ~game.Players[p].Pieces[k].IsHome /\ game'.Players[p].Pieces[k].IsHome

ExtraTurnEarned == game.LastDiceRoll = 6 \/ (CapturedNow /\ game.CaptureGrantsTurn)

\* C6: after a successful movePiece that does not end the game hasRolled is
\* false, and currentTurn is unchanged, with consecutiveSixes kept, iff the roll
\* was 6 or the move captured a piece while captureGrantsExtraTurn is true;
\* otherwise currentTurn is the player of order (mover's order + 1) mod N and
\* consecutiveSixes is 0.
C6_ExtraTurnRule ==
    [][Succeeded("move") /\ game'.State # "ended" =>
        /\ ~game'.HasRolled
        /\ game'.CurrentTurn = game.CurrentTurn <=> ExtraTurnEarned
        /\ ExtraTurnEarned => game'.ConsecutiveSixes = game.ConsecutiveSixes
        /\ ~ExtraTurnEarned =>
              /\ game'.Players[game'.CurrentTurn].Order =
                    (game.Players[game.CurrentTurn].Order + 1) % NumPlayers(game)
              /\ game'.ConsecutiveSixes = 0]_vars

\* A capture with a roll below six kept the turn.
C6_Witness ==
    /\ last.op = "move" /\ last.err = OK
    /\ game.State = "playing"
    /\ game.LastDiceRoll # 6
    /\ LastMove(game).WasCapture
    /\ game.CurrentTurn = last.pid
    /\ ~game.HasRolled

StepsToEntry(g, color, p) ==
    (GetHomeStretchEntry(color, g.MaxPlayers) - p) % GetBoardSize(g.MaxPlayers)

EntersStretch(g, color, p, r) ==
    hasCompletedLap(g, color, p) /\ r > StepsToEntry(g, color, p)

LegalByRule(g, pid, r) ==
    LET player == g.Players[pid]
        legal(pc) ==
            /\ ~pc.IsFinished
            /\ \/ pc.IsHome /\ r = 6
               \/ ~pc.IsHome /\ pc.HomeStretchPosition > 0
                             /\ pc.HomeStretchPosition + r <= 6
               \/ ~pc.IsHome /\ pc.HomeStretchPosition = 0
                             /\ (EntersStretch(g, player.Color, pc.Position, r) =>
                                    r - StepsToEntry(g, player.Color, pc.Position) <= 6)
    IN {pc.ID : pc \in {player.Pieces[k] : k \in {j \in 1..PiecesPerPlayer :
                                                      legal(player.Pieces[j])}}}

\* C7: for every player, piece configuration and roll r in 1..6 the legal-move
\* set is exactly the ids of the non-finished pieces that are at home with r = 6,
\* or in the home stretch with index + r <= 6, or on the main track with a target
\* that stays on the track or enters the stretch at index <= 6; with all four
\* pieces at home that is all four ids for r = 6 and none for r in 1..5.
C7_LegalMoveSet ==
    \A pid \in DOMAIN game.Players : \A r \in 1..6 :
        LET listed == getValidMovesInternal([game EXCEPT !.LastDiceRoll = r], pid)
            allHome == \A k \in 1..PiecesPerPlayer : game.Players[pid].Pieces[k].IsHome
        IN /\ Ids(listed) = LegalByRule(game, pid, r)
           /\ Len(listed) = Cardinality(Ids(listed))
           /\ allHome => Ids(listed) = IF r = 6 THEN 0..3 ELSE {}

\* The player has rolled; a stretch piece would overshoot and is not listed while
\* another piece is.
C7_Witness ==
    /\ game.State = "playing" /\ game.HasRolled
    /\ LET cur == game.Players[game.CurrentTurn]
           listed == Ids(getValidMovesInternal(game, game.CurrentTurn))
       IN /\ listed # {}
          /\ \E k \in 1..PiecesPerPlayer :
                /\ cur.Pieces[k].HomeStretchPosition \in 1..5
                /\ cur.Pieces[k].HomeStretchPosition + game.LastDiceRoll > 6
                /\ cur.Pieces[k].ID \notin listed

\* C8: in play, for the current player after the roll, movePiece succeeds iff the
\* piece id is in the legal-move set listValidMoves computes; for every other
\* piece (finished, at home without a six, overshooting) it returns IllegalMove.
C8_MoveIffListed ==
    game.State = "playing" /\ game.HasRolled =>
        \A pieceID \in 0..3 :
            LET r == MovePiece(game, game.CurrentTurn, pieceID, now)
                listed == pieceID \in Ids(GetValidMoves(game, game.CurrentTurn))
            IN /\ r.err = OK <=> listed
               /\ ~listed => r.err = ErrInvalidMove /\ r.g = game

\* An unlisted piece was refused while another piece was movable.
C8_Witness ==
    /\ last.op = "move" /\ last.err = ErrInvalidMove
    /\ game.State = "playing" /\ game.HasRolled
    /\ GetValidMoves(game, game.CurrentTurn) # <<>>

PlacedAsAdvance(g, color, old, new, r) ==
    IF old.IsHome
    THEN /\ new.Position = GetStartPosition(color, g.MaxPlayers)
         /\ ~new.IsHome /\ ~new.IsFinished /\ new.HomeStretchPosition = 0
    ELSE IF old.HomeStretchPosition > 0
    THEN /\ new.HomeStretchPosition = old.HomeStretchPosition + r
         /\ new.IsFinished <=> old.HomeStretchPosition + r = 6
         /\ ~new.IsHome
    ELSE IF EntersStretch(g, color, old.Position, r)
    THEN /\ new.HomeStretchPosition = r - StepsToEntry(g, color, old.Position)
         /\ new.IsFinished <=> new.HomeStretchPosition = 6
         /\ new.Position \notin 0..(GetBoardSize(g.MaxPlayers) - 1)
         /\ ~new.IsHome
    ELSE /\ new.Position = (old.Position + r) % GetBoardSize(g.MaxPlayers)
         /\ new.HomeStretchPosition = 0
         /\ ~new.IsHome /\ ~new.IsFinished

\* C9: a successful move places the piece as advance defines: a home piece on its
\* colour's start cell; a stretch piece at index i at index i + r, finished exactly
\* when i + r = 6; an on-track piece at p, with stepsToEntry = (stretchEntry - p)
\* mod L, in the stretch at index r - stepsToEntry when it is lap-eligible and
\* r > stepsToEntry (finished when that index is 6), otherwise at (p + r) mod L.
C9_PlacementAsAdvance ==
    [][Succeeded("move") =>
        PlacedAsAdvance(game, game.Players[last'.pid].Color,
                        game.Players[last'.pid].Pieces[last'.piece + 1],
                        game'.Players[last'.pid].Pieces[last'.piece + 1],
                        game.LastDiceRoll)]_vars

\* A piece went from the track into the home stretch without finishing.
C9_Witness ==
    /\ last.op = "move" /\ last.err = OK
    /\ LastMove(game).FromPos >= 0
    /\ LastMove(game).ToPos = StretchPosition
    /\ game.Players[last.pid].Pieces[last.piece + 1].HomeStretchPosition \in 1..5

OnCell(pc, cell) ==
    pc.Position = cell /\ ~pc.IsHome /\ ~pc.IsFinished /\ pc.HomeStretchPosition = 0

CaptureDone(pid, cell) ==
    /\ \A p \in DOMAIN game.Players \ {pid} : \A k \in 1..PiecesPerPlayer :
          OnCell(game.Players[p].Pieces[k], cell) =>
              /\ game'.Players[p].Pieces[k].Position = -1
              /\ game'.Players[p].Pieces[k].HomeStretchPosition = 0
              /\ game'.Players[p].Pieces[k].IsHome
              /\ ~game'.Players[p].Pieces[k].IsSafe
    /\ (\E p \in DOMAIN game.Players \ {pid} : \E k \in 1..PiecesPerPlayer :
           OnCell(game.Players[p].Pieces[k], cell)) => LastMove(game').WasCapture

\* C10: when a move lands a piece on a main-track cell outside the safe-cell set,
\* every piece of every other player on that cell (on track, not in the stretch,
\* not at home, not finished) is returned home with position -1, stretch index 0,
\* atHome true and onSafeCell false, and the move is recorded as a capture.
C10_CaptureOnUnsafeCell ==
    [][Succeeded("move") =>
        LET new == game'.Players[last'.pid].Pieces[last'.piece + 1]
        IN /\ new.Position \in 0..(GetBoardSize(game.MaxPlayers) - 1)
           /\ ~new.IsHome /\ ~new.IsFinished /\ new.HomeStretchPosition = 0
           /\ ~IsSafeZone(new.Position, game.MaxPlayers)
           => CaptureDone(last'.pid, new.Position)]_vars

\* A move onto an unsafe cell was recorded as a capture and the mover's piece is
\* alone on the cell.
C10_Witness ==
    /\ last.op = "move" /\ last.err = OK
    /\ LastMove(game).WasCapture
    /\ LastMove(game).ToPos \in 0..(GetBoardSize(game.MaxPlayers) - 1)
    /\ ~IsSafeZone(LastMove(game).ToPos, game.MaxPlayers)
    /\ \A p \in DOMAIN game.Players \ {last.pid} : \A k \in 1..PiecesPerPlayer :
          ~OnCell(game.Players[p].Pieces[k], LastMove(game).ToPos)

MovedPiece(g) == g.Players[last'.pid].Pieces[last'.piece + 1]

OnTrack(g, pc) ==
    /\ pc.Position \in 0..(GetBoardSize(g.MaxPlayers) - 1)
    /\ ~pc.IsHome /\ ~pc.IsFinished /\ pc.HomeStretchPosition = 0

\* C11: no piece is sent home by a capture while it stands on a safe cell, is in
\* its home stretch or is finished, and a move never sends the mover's own pieces
\* home; landing on a safe cell occupied by opponents leaves them in place and
\* grants no capture extra turn.
C11_ProtectedPiecesStay ==
    [][Succeeded("move") =>
        /\ \A p \in DOMAIN game.Players : \A k \in 1..PiecesPerPlayer :
              ~game.Players[p].Pieces[k].IsHome /\ game'.Players[p].Pieces[k].IsHome =>
                  /\ p # last'.pid
                  /\ OnTrack(game, game.Players[p].Pieces[k])
                  /\ ~IsSafeZone(game.Players[p].Pieces[k].Position, game.MaxPlayers)
        /\ OnTrack(game', MovedPiece(game'))
              /\ IsSafeZone(MovedPiece(game').Position, game.MaxPlayers) =>
                  /\ \A p \in DOMAIN game.Players \ {last'.pid} :
                        game'.Players[p] = game.Players[p]
                  /\ ~LastMove(game').WasCapture
                  /\ game.LastDiceRoll # 6 => game'.CurrentTurn # game.CurrentTurn]_vars

\* A piece landed on a safe cell where an opponent's piece stands, and the turn
\* passed on.
C11_Witness ==
    /\ last.op = "move" /\ last.err = OK
    /\ game.State = "playing"
    /\ IsSafeZone(LastMove(game).ToPos, game.MaxPlayers)
    /\ \E p \in DOMAIN game.Players \ {last.pid} : \E k \in 1..PiecesPerPlayer :
          OnCell(game.Players[p].Pieces[k], LastMove(game).ToPos)
    /\ game.CurrentTurn # last.pid

AllFinished(g, p) ==
    \A k \in 1..PiecesPerPlayer : g.Players[p].Pieces[k].IsFinished

EndedByWinner ==
    IF game.State = "ended"
    THEN /\ game.Winner \in DOMAIN game.Players
         /\ AllFinished(game, game.Winner)
         /\ Len(game.MoveHistory) > 0
         /\ LastMove(game).PlayerID = game.Winner
    ELSE \A p \in DOMAIN game.Players : ~AllFinished(game, p)

\* C12: the session becomes ended exactly by a move that finishes the mover's
\* fourth piece; in every ended state the winner is a player of the room with four
\* finished pieces who made the last move, and the winner stays until a rematch;
\* in the other states no player has four finished pieces.
C12_EndedIffWinningMove ==
    /\ []EndedByWinner
    /\ [][/\ (game.State # "ended" /\ game'.State = "ended")
                <=> (Succeeded("move") /\ AllFinished(game', last'.pid))
          /\ game.State = "ended" /\ ~Succeeded("rematch")
                => game'.Winner = game.Winner /\ game'.State = "ended"]_vars

\* The mover's fourth piece has just finished and the session ended with the
\* mover as winner.
C12_Witness ==
    /\ last.op = "move" /\ last.err = OK
    /\ game.State = "ended"
    /\ game.Winner = last.pid
    /\ AllFinished(game, last.pid)

AtHome(pc) == pc.IsHome /\ pc.Position = HomePosition /\ pc.HomeStretchPosition = 0

OnMainTrack(pc, maxPlayers) ==
    pc.Position \in 0..(GetBoardSize(maxPlayers) - 1) /\ pc.HomeStretchPosition = 0

InHomeStretch(pc) == pc.HomeStretchPosition \in 1..(HomeStretchSize - 1)

Finished(pc) == pc.IsFinished /\ pc.HomeStretchPosition = HomeStretchSize

Conditions(pc, maxPlayers) ==
    {c \in {"home", "track", "stretch", "finished"} :
        \/ c = "home" /\ AtHome(pc)
        \/ c = "track" /\ OnMainTrack(pc, maxPlayers)
        \/ c = "stretch" /\ InHomeStretch(pc)
        \/ c = "finished" /\ Finished(pc)}

AllPieces(g) == {g.Players[p].Pieces[k] : p \in DOMAIN g.Players, k \in 1..PiecesPerPlayer}

\* C13: every piece is in exactly one of the conditions at home, on the main
\* track, in the home stretch, finished; the finished flag holds exactly when the
\* stretch index is 6 and the at-home flag exactly when the position is -1.
C13_PieceInOneCondition ==
    \A pc \in AllPieces(game) :
        /\ Cardinality(Conditions(pc, game.MaxPlayers)) = 1
        /\ pc.IsFinished <=> pc.HomeStretchPosition = HomeStretchSize
        /\ pc.IsHome <=> pc.Position = HomePosition

\* A move has just finished a piece from the home stretch while other pieces are
\* at home and on the main track.
C13_Witness ==
    /\ last.op = "move" /\ last.err = OK
    /\ LastMove(game).FromPos < HomePosition
    /\ Finished(game.Players[last.pid].Pieces[last.piece + 1])
    /\ \E pc \in AllPieces(game) : AtHome(pc)
    /\ \E pc \in AllPieces(game) : OnMainTrack(pc, game.MaxPlayers)

\* C14: the colours of the players of a session are pairwise distinct in every
\* reachable state, on the four-player and on the six-player board.
C14_ColoursDistinct ==
    \A p, q \in DOMAIN game.Players :
        p # q => game.Players[p].Color # game.Players[q].Color

\* C15: the turn-order indices of the N players of a session are exactly
\* 0..N-1, without gap or duplicate, in every reachable state.
C15_OrdersContiguous ==
    /\ {game.Players[p].Order : p \in DOMAIN game.Players} = 0..(NumPlayers(game) - 1)
    /\ \A p, q \in DOMAIN game.Players :
          p # q => game.Players[p].Order # game.Players[q].Order

\* C16: whenever a session has at least one player, exactly one player has
\* IsHost = true and HostID is that player's id.
C16_ExactlyOneHost ==
    DOMAIN game.Players # {} =>
        /\ Cardinality({p \in DOMAIN game.Players : game.Players[p].IsHost}) = 1
        /\ game.HostID \in DOMAIN game.Players
        /\ game.Players[game.HostID].IsHost

Full(g) == NumPlayers(g) >= g.MaxPlayers

\* What a join or addBot call must answer in the state it is made in, "" when no
\* refusal is due.
RefusalDue(g, full, known) ==
    IF g.State # "waiting" THEN ErrGameStarted
    ELSE IF full THEN ErrGameFull
    ELSE IF known THEN ErrPlayerExists
    ELSE ""

\* C17: the number of players never exceeds MaxPlayers; a join or a host's addBot
\* is refused with ErrGameStarted outside waiting, with ErrGameFull in a full
\* waiting room, a join with ErrPlayerExists for an id already in the room, and a
\* refused call adds no player.
C17_RoomNeverOverfull ==
    /\ [](NumPlayers(game) <= game.MaxPlayers)
    /\ [][/\ last'.op = "join" /\ RefusalDue(game, Full(game), last'.pid \in DOMAIN game.Players) # ""
               => /\ last'.err = RefusalDue(game, Full(game), last'.pid \in DOMAIN game.Players)
                  /\ game'.Players = game.Players
          /\ last'.op = "addBot" /\ last'.pid = game.HostID /\ RefusalDue(game, Full(game), FALSE) # ""
               => /\ last'.err = RefusalDue(game, Full(game), FALSE)
                  /\ game'.Players = game.Players
          /\ last'.op \in {"join", "addBot"} /\ last'.err # OK
               => game'.Players = game.Players]_vars

\* A join was refused because the waiting room is full.
C17_Witness ==
    /\ last.op = "join" /\ last.err = ErrGameFull
    /\ game.State = "waiting"
    /\ NumPlayers(game) = game.MaxPlayers

AllReady(g) == \A p \in DOMAIN g.Players : g.Players[p].IsReady

\* What StartGame must answer to hostID in the state g.
StartAnswer(g, hostID) ==
    IF g.HostID # hostID THEN ErrNotHost
    ELSE IF g.State # "waiting" THEN ErrGameStarted
    ELSE IF NumPlayers(g) < 2 THEN ErrNotEnoughPlayers
    ELSE IF ~AllReady(g) THEN ErrPlayersNotReady
    ELSE OK

Started(g) ==
    /\ g.State = "playing"
    /\ {g.Players[p].Order : p \in DOMAIN g.Players} = 0..(NumPlayers(g) - 1)
    /\ \A p, q \in DOMAIN g.Players : p # q => g.Players[p].Order # g.Players[q].Order
    /\ g.CurrentTurn \in DOMAIN g.Players
    /\ g.Players[g.CurrentTurn].Order = 0
    /\ ~g.HasRolled
    /\ g.ConsecutiveSixes = 0

\* C18: start succeeds only for the host, in waiting, with at least 2 players all
\* of them ready, and answers ErrNotHost, ErrGameStarted, ErrNotEnoughPlayers or
\* ErrPlayersNotReady otherwise; after a successful start the state is playing,
\* the orders are a permutation of 0..N-1, CurrentTurn has order 0, HasRolled is
\* false and ConsecutiveSixes is 0.
C18_StartContract ==
    [][last'.op = "start" =>
          /\ last'.err = StartAnswer(game, last'.pid)
          /\ last'.err = OK =>
                /\ game.HostID = last'.pid /\ game.State = "waiting"
                /\ NumPlayers(game) >= 2 /\ AllReady(game)
                /\ Started(game')
                /\ DOMAIN game'.Players = DOMAIN game.Players
          /\ last'.err # OK => game' = game]_vars

\* The host has just started the game and the shuffle gave the first turn to the
\* guest.
C18_Witness ==
    /\ last.op = "start" /\ last.err = OK
    /\ game.State = "playing"
    /\ game.CurrentTurn # game.HostID
    /\ game.Players[game.CurrentTurn].Order = 0

ReadyFlags(g) == [p \in DOMAIN g.Players |-> g.Players[p].IsReady]

Bots(g) == {p \in DOMAIN g.Players : g.Players[p].IsBot}

\* C19: setReady succeeds only while the session is waiting and the caller is a
\* player; in playing, paused or ended state it changes no player's ready flag.
C19_ReadyOnlyWhileWaiting ==
    [][last'.op = "ready" =>
          /\ last'.err = OK => game.State = "waiting" /\ last'.pid \in DOMAIN game.Players
          /\ game.State # "waiting" => ReadyFlags(game') = ReadyFlags(game)]_vars

\* C20: in every waiting state, the one reached by rematch included, every bot
\* has IsReady = true.
C20_BotsReadyWhileWaiting ==
    game.State = "waiting" => \A b \in Bots(game) : game.Players[b].IsReady

\* C21: GetValidMoves(pid) is the empty list whenever pid is not CurrentTurn or
\* HasRolled is false, in every state, a three-sixes forfeit included.
C21_NoMovesOffTurn ==
    \A pid \in DOMAIN game.Players :
        game.CurrentTurn # pid \/ ~game.HasRolled => GetValidMoves(game, pid) = <<>>

TimedOutNow == game.State = "playing" /\ IsTurnTimedOut(game, now)

\* C23: forceSkip skips the turn exactly when, at the call, the state is playing
\* and the turn has lasted longer than the limit; it then returns the id of the
\* player who held the turn and leaves HasRolled false and ConsecutiveSixes 0; in
\* every other state it changes nothing and returns no id.
C23_ForceSkipRechecks ==
    [][last'.op = "forceSkip" =>
          /\ last'.pid # "" <=> TimedOutNow
          /\ game'.CurrentTurn # game.CurrentTurn => TimedOutNow
          /\ TimedOutNow =>
                /\ last'.pid = game.CurrentTurn
                /\ ~game'.HasRolled
                /\ game'.ConsecutiveSixes = 0
                /\ game'.State = "playing"
          /\ ~TimedOutNow => game' = game]_vars

\* The timeout driver has just skipped the turn of a player who had rolled.
C23_Witness ==
    /\ last.op = "forceSkip"
    /\ last.pid # ""
    /\ game.CurrentTurn # last.pid
    /\ game.LastDiceRoll > 0
    /\ ~game.HasRolled

\* The time the current turn has lasted as the timeout test sees it: up to now
\* while playing, up to the pause while paused.
TurnAge(g, t) ==
    IF g.State = "paused" THEN g.PausedAt - g.TurnStartTime ELSE t - g.TurnStartTime

Running(g) == g.State \in {"playing", "paused"}

\* C25: paused time never counts toward the turn timeout.  The age of the turn
\* grows with the clock only while playing, stands still while paused, is kept by
\* pause and by resume (resume moves TurnStartTime by the length of the pause) and
\* by every call that leaves the turn where it is; a forced skip happens only in
\* playing state with a turn age above the limit.
C25_PausedTimeNotCounted ==
    [][/\ last'.op = "tick" /\ game.State = "playing"
            => TurnAge(game', now') = TurnAge(game, now) + (now' - now)
       /\ last'.op = "tick" /\ game.State = "paused"
            => TurnAge(game', now') = TurnAge(game, now)
       /\ Succeeded("resume")
            => game'.TurnStartTime = game.TurnStartTime + (now - game.PausedAt)
       /\ last'.op # "tick" /\ Running(game) /\ Running(game')
             /\ game'.CurrentTurn = game.CurrentTurn
            => TurnAge(game', now') = TurnAge(game, now)
       /\ last'.op = "forceSkip" /\ last'.pid # ""
            => game.State = "playing" /\ TurnAge(game, now) > DefaultTurnTimeout]_vars

\* The clock ran past the limit while the game was paused, the game was resumed,
\* and the timeout driver's call skipped nobody.
C25_Witness ==
    /\ last.op = "forceSkip" /\ last.pid = ""
    /\ game.State = "playing"
    /\ game.TurnStartTime > StartClock
    /\ now - StartClock > DefaultTurnTimeout
    /\ TurnAge(game, now) <= DefaultTurnTimeout

\* The ready flag a player has right after joining: bots join ready, humans not.
ReadyOnJoin(player) == player.IsBot

\* C26: rematch succeeds only for the host of an ended session, and leaves the
\* session as a fresh waiting one with the same players and host: every piece at
\* home, every ready flag as on a fresh join, no CurrentTurn, no Winner,
\* LastDiceRoll 0, HasRolled false, ConsecutiveSixes 0 and empty move and chat logs.
C26_RematchGivesFreshSession ==
    [][Succeeded("rematch") =>
          /\ game.State = "ended" /\ last'.pid = game.HostID
          /\ game'.State = "waiting"
          /\ DOMAIN game'.Players = DOMAIN game.Players
          /\ game'.HostID = game.HostID
          /\ \A p \in DOMAIN game'.Players :
                /\ game'.Players[p].Pieces = NewPieces
                /\ game'.Players[p].IsReady = ReadyOnJoin(game'.Players[p])
          /\ game'.CurrentTurn = "" /\ game'.Winner = ""
          /\ game'.LastDiceRoll = 0 /\ ~game'.HasRolled /\ game'.ConsecutiveSixes = 0
          /\ game'.MoveHistory = <<>> /\ game'.ChatMessages = <<>>]_vars

MutatingOps ==
    {"join", "spectate", "ready", "kick", "leave", "start", "pause", "resume", "roll",
     "move", "skip", "chat", "rematch", "addBot", "removeBot"}

\* C28: every successful mutating operation on the session, the winning move, a
\* skip, a forced skip and a spectator's chat included, sets LastActivity to the
\* time of the operation.
C28_ActivityBumped ==
    [][\/ last'.op \in MutatingOps /\ last'.err = OK
       \/ last'.op = "forceSkip" /\ last'.pid # ""
       => game'.LastActivity = now]_vars

Idle(g, t) == t - g.LastActivity

Age(g, t) == t - g.CreatedAt

\* C27: a sweep removes the session exactly when it is ended and idle for more
\* than 30 minutes, or waiting and idle for more than 30 minutes, or older than 24
\* hours, or without players and older than 5 minutes; a playing or paused session
\* with players that is not older than 24 hours stays, however long it is idle.
C27_SweepPolicy ==
    [][last'.op = "sweep" =>
          /\ removed' <=>
                \/ game.State = "ended" /\ Idle(game, now) > 30 * 60
                \/ game.State = "waiting" /\ Idle(game, now) > 30 * 60
                \/ Age(game, now) > 24 * 60 * 60
                \/ NumPlayers(game) = 0 /\ Age(game, now) > 5 * 60
          /\ game.State \in {"playing", "paused"} /\ NumPlayers(game) > 0
                /\ Age(game, now) <= 24 * 60 * 60 => ~removed']_vars

\* A sweep removed a session that has no players, is older than 5 minutes and
\* has not been idle for 30 minutes.
C27_Witness ==
    /\ last.op = "sweep"
    /\ removed
    /\ NumPlayers(game) = 0
    /\ Age(game, now) > 5 * 60
    /\ Idle(game, now) <= 30 * 60

\* C22: no SkipTurn succeeds while the skipping player has a legal move for the
\* roll, however the requests and the drivers interleave.
C22_SkipOnlyWithoutMoves ==
    [][Succeeded("skip") => ~HasValidMoves(game, last'.pid)]_vars

\* C29: the events are handed to the hub in the order in which their operations
\* took effect on the session.
C29_EventsInOperationOrder ==
    \A i, j \in 1..Len(events) : i < j => events[i].op <= events[j].op

\* C30: the snapshot a task takes for its event is the session as the task's own
\* operation left it, never one that shows a later operation of another task.
C30_SnapshotIsPostState ==
    /\ \A task \in tasks :
          task.snap # <<>> => task.snap[1] = GetGameState(task.post[1])
    /\ \A k \in 1..Len(events) :
          events[k].snap # <<>> => events[k].snap[1] = GetGameState(events[k].post[1])

\* A roll or a move that leaves the turn with the same player (an extra turn,
\* a refused call) leaves the start of the turn where it was.
KeepsTurnStart ==
    (/\ last'.op \in {"roll", "move"}
     /\ game.State = "playing" /\ game'.State = "playing"
     /\ game'.CurrentTurn = game.CurrentTurn)
        => game'.TurnStartTime = game.TurnStartTime

\* C24: no player holds the turn forever.  While the game stays in play and the
\* clock and the timeout driver go on, the turn of a player passes to another
\* player (or the game ends), whether the player acts or not, and an extra turn
\* does not restart the time limit; the clock of a run ends at MaxLiveClock.
C24_TurnPasses ==
    /\ \A p \in Humans :
           (game.State = "playing" /\ game.CurrentTurn = p)
               ~> (game.CurrentTurn # p \/ game.State # "playing" \/ now >= MaxLiveClock)
    /\ [][KeepsTurnStart]_vars

\* The timeout driver skipped a player who had moved and earned an extra turn.
C24_Witness ==
    /\ last.op = "forceSkip" /\ last.pid # ""
    /\ game.CurrentTurn # last.pid
    /\ Len(game.MoveHistory) > 0
    /\ LastMove(game).PlayerID = last.pid
    /\ now < MaxLiveClock

\* The pieces of session b that differ from the same pieces of session a.
ChangedPieces(a, b) ==
    {pk \in (DOMAIN a.Players) \X (1..PiecesPerPlayer) :
        b.Players[pk[1]].Pieces[pk[2]] # a.Players[pk[1]].Pieces[pk[2]]}

\* The moved piece and the pieces of other players that stood on its landing cell.
Involved(g, mover, pieceID, cell) ==
    {<<mover, pieceID + 1>>} \cup
    {pk \in (DOMAIN g.Players \ {mover}) \X (1..PiecesPerPlayer) :
        OnCell(g.Players[pk[1]].Pieces[pk[2]], cell)}

\* C33: after a successful movePiece the only pieces that differ from before the
\* call are the moved piece and the opponent pieces captured on its landing cell;
\* every other piece of every player is unchanged, and no player joins or goes.
C33_OnlyInvolvedPiecesChange ==
    game.State = "playing" /\ game.HasRolled =>
        \A pieceID \in 0..(PiecesPerPlayer - 1) :
            LET r == MovePiece(game, game.CurrentTurn, pieceID, now)
            IN r.err = OK =>
                  /\ DOMAIN r.g.Players = DOMAIN game.Players
                  /\ ChangedPieces(game, r.g) \subseteq
                        Involved(game, game.CurrentTurn, pieceID,
                                 r.g.Players[game.CurrentTurn].Pieces[pieceID + 1].Position)

\* A capture was made while the mover and the captured player each have another
\* piece on the board, and only the two pieces involved differ.
C33_Witness ==
    /\ game.State = "playing" /\ game.HasRolled
    /\ \E pieceID \in 0..(PiecesPerPlayer - 1) :
          LET r == MovePiece(game, game.CurrentTurn, pieceID, now)
          IN /\ r.err = OK
             /\ Cardinality(ChangedPieces(game, r.g)) = 2
             /\ \E p \in DOMAIN game.Players \ {game.CurrentTurn} :
                   /\ \E k \in 1..PiecesPerPlayer : <<p, k>> \in ChangedPieces(game, r.g)
                   /\ \E k \in 1..PiecesPerPlayer :
                         /\ <<p, k>> \notin ChangedPieces(game, r.g)
                         /\ ~game.Players[p].Pieces[k].IsHome

Followed == game.Players[Host].Pieces[1]

TrackLength == GetBoardSize(game.MaxPlayers) - 2

\* C40: on both boards and for every colour, the stretch-entry cell of a colour
\* is L - 2 cells after its start cell; a piece on the track stands as many cells
\* after its start cell as it has advanced, never more than L - 2 (so never on the
\* cell between its entry and its start), and a piece in its home stretch has
\* advanced the L - 2 cells of the track plus its stretch index.
C40_OneLapOnly ==
    LET startPos == GetStartPosition(game.Players[Host].Color, game.MaxPlayers)
        entry == GetHomeStretchEntry(game.Players[Host].Color, game.MaxPlayers)
    IN /\ entry = (startPos + TrackLength) % GetBoardSize(game.MaxPlayers)
       /\ OnTrack(game, Followed) =>
             /\ travelled <= TrackLength
             /\ Followed.Position = (startPos + travelled) % GetBoardSize(game.MaxPlayers)
       /\ Followed.HomeStretchPosition > 0 =>
             travelled = TrackLength + Followed.HomeStretchPosition

\* On the six-player board an indigo piece went from the track over its entry
\* cell into the stretch.
C40_Witness ==
    /\ game.MaxPlayers = 6 /\ game.Players[Host].Color = "indigo"
    /\ Followed.HomeStretchPosition \in 1..5
    /\ last.op = "move" /\ last.roll > Followed.HomeStretchPosition
    /\ travelled = TrackLength + Followed.HomeStretchPosition

IsEvent(msg) == msg.n > 0

\* C31: every broadcast event a subscriber's writer has written is an event the
\* hub took for the subscriber's own room, no event is written twice, and the
\* events are written in the order in which the hub took them.
C31_DeliveryInOrder ==
    \A c \in Clients :
        /\ \A i \in 1..Len(hub.written[c]) :
              IsEvent(hub.written[c][i]) =>
                  /\ hub.written[c][i].GameCode = gameCode[c]
                  /\ hub.written[c][i].n <= Len(hub.queued)
                  /\ hub.queued[hub.written[c][i].n] = hub.written[c][i]
        /\ \A i, j \in 1..Len(hub.written[c]) :
              i < j /\ IsEvent(hub.written[c][i]) /\ IsEvent(hub.written[c][j]) =>
                  hub.written[c][i].n < hub.written[c][j].n

\* A subscriber of room A has been written two events of its room while the hub
\* took an event of room B, which has a subscriber, in between.
C31_Witness ==
    \E c \in Clients : \E i, j \in 1..Len(hub.written[c]) :
        /\ i < j
        /\ IsEvent(hub.written[c][i]) /\ IsEvent(hub.written[c][j])
        /\ \E k \in 1..Len(hub.queued) :
              /\ hub.written[c][i].n < k /\ k < hub.written[c][j].n
              /\ hub.queued[k].GameCode # gameCode[c]
              /\ Subscribers(hub, hub.queued[k].GameCode) # {}

\* C32: the hub's broadcast never waits for a subscriber: after it the message is
\* the newest in the buffer of every subscriber of the room whose buffer had
\* room, every subscriber whose buffer was full is closed and out of the room,
\* and the hub goes on to its next request.
C32_BroadcastNeverBlocks ==
    [][last'.op = "broadcast" =>
        /\ hub'.fault = ""
        /\ \A c \in Subscribers(hub, last'.pid) :
              IF Len(hub.send[c]) < SendBufferSize
              THEN /\ hub'.send[c] = Append(hub.send[c], hub'.queued[Len(hub'.queued)])
                   /\ c \in Subscribers(hub', last'.pid)
              ELSE /\ hub'.closes[c] = 1
                   /\ c \notin Subscribers(hub', last'.pid)]_vars

InSomeRoom(h, c) == \E r \in DOMAIN h.games : c \in h.games[r]

\* C34: a subscriber's buffer is closed at most once, whatever the order of
\* eviction, unregistration and broadcast; a subscriber whose buffer is closed or
\* whose unregistration is done is in no room's subscriber set; and handling an
\* unregister request a second time changes nothing.
C34_ClosedAtMostOnce ==
    /\ hub.fault # "close of closed channel"
    /\ \A c \in Clients :
          /\ hub.closes[c] <= 1
          /\ hub.closes[c] = 1 \/ hub.reader[c] = "done" => ~InSomeRoom(hub, c)
          /\ unregisterClient(unregisterClient(hub, c), c) = unregisterClient(hub, c)

\* A subscriber evicted with a full buffer was later unregistered by its reader.
C34_Witness ==
    /\ last.op = "unregister"
    /\ hub.closes[last.pid] = 1
    /\ Len(hub.send[last.pid]) = SendBufferSize
    /\ Subscribers(hub, gameCode[last.pid]) # {}

\* C35: no task sends to a subscriber's buffer after it was closed, and the
\* reader's pong never waits on a full buffer that no writer empties.
C35_NoSendAfterClose ==
    /\ hub.fault # "send on closed channel"
    /\ \A c \in Clients :
          ~(/\ hub.reader[c] = "ponging"
            /\ Len(hub.send[c]) >= SendBufferSize
            /\ hub.writer[c] = "exited")

\* C37: what a handler hands over for serialization is the session as it stood
\* at one moment between operations: every "game" that is sent equals the
\* snapshot of a state the session has been in, as it would be if every read of
\* the session's fields were made under the session's lock.
C37_ObservedStatesAreSerial ==
    \A i \in 1..Len(events) :
        events[i].sent # <<>> =>
            events[i].sent[1] \in serial \cup {GetGameState(game)}

\* C36: no deadlock on the locks.  A task that is about to take the registry's
\* lock holds no session lock, a task that is about to take a session's lock does
\* not hold it already, a task that is about to send to the hub holds no session
\* lock, and while tasks are under way one of them can take its next step.
C36_LockOrder ==
    /\ \A t \in tasks : ~Through(t) =>
          /\ NextOp(t).mu = "gm" /\ NextOp(t).act \in {"Lock", "RLock"} => ~HoldsAny(t, "g")
          /\ NextOp(t).mu = "g" /\ NextOp(t).act \in {"Lock", "RLock"} => ~HoldsAny(t, "g")
          /\ NextOp(t).act = "send" => ~HoldsAny(t, "g")
    /\ tasks # {} => \E t \in tasks : CanStep(t) \/ Through(t)

\* The sweep holds the registry's lock and waits for the session's lock, which a
\* request handler holds for writing.
C36_Witness ==
    \E t, u \in tasks :
        /\ t.kind = "cleanup" /\ Holds(t, "gm", "Lock")
        /\ ~Through(t) /\ NextOp(t) = [act |-> "RLock", mu |-> "g"]
        /\ ~CanStep(t)
        /\ Holds(u, "g", "Lock")

\* C38: the bot driver acts only for the bot whose turn it observed.  Whenever
\* a call of RollDice, MovePiece or SkipTurn by the bot driver is accepted, the
\* player it names is a bot and is the player that was in turn when
\* IsCurrentPlayerBot answered.
C38_BotPlaysOwnTurn ==
    [][\A p \in tasks :
          (p.phase \in {"roll", "move", "skip"} /\ tasks' # tasks /\ last'.err = OK)
              => (p.currentTurn \in Bots(game) /\ p.currentTurn = p.observed)]_vars

\* C39: every turn_skipped or piece_moved event of the bot driver stands for a
\* SkipTurn or MovePiece call that was accepted.
C39_EventsFollowAcceptedCalls ==
    \A i \in 1..Len(events) :
        events[i].type \in {"turn_skipped", "piece_moved"} => events[i].err = OK

====
